---------------------------- MODULE Spec2Model ----------------------------
(***************************************************************************)
(* Model of the XML generation backend (compiler/plc_xmlgen):              *)
(*   - serializer.rs : the generic Node tree and Node::serialize           *)
(*   - xml_gen.rs    : the enumerator conflict resolver, the program-unit  *)
(*                     translator with its order tracker, and the writer   *)
(***************************************************************************)
EXTENDS Integers, Sequences, FiniteSets, TLC

VARIABLES
    \* ---- format_enum_initials, called on its own
    enum_input,     \* the Vec<NameAndInitialValue> handed to the resolver
    enum_result,    \* what the call produced (NoResult before the call)
    enum_pc,        \* "ready" | "done" | "fed_back" | "aborted"
    \* ---- Node::serialize and write_xml_file, called on a finished tree
    tree,           \* the Node handed to serialize and to write_xml_file
    ser_out,        \* the text Node::serialize(0) returned, line by line
    write_out,      \* what write_xml_file did: its result and its writes
    node_pc,        \* "built" | "serialized" | "written"
    created,        \* whether File::create succeeded in write_xml_file
    \* ---- parse_project_into_nodetree
    units,          \* the compilation units of the run
    params,
    document,    \* the document tree the passes extend
    tracker,    \* the run-wide tracker: a set of <<unit name, order>>
    unit_idx,       \* `a`, the 0-based index of the unit being processed
    gen_pc,         \* "loop" | "types" | "pous" | "done" | "panicked"
    gen_result,     \* what parse_project_into_nodetree returned (NoReturn before)
    order_log,      \* history: every orderWithinParamSet written, in order
    pass_log,       \* history: every sub-pass called, with its Result
    \* ---- a Node built call by call
    source,         \* the state of the builder object `c` handed to child(..)
    parent,         \* the node `c` is attached to; a child is held as the
                    \* Node pushed, or as [ref |-> id] where a push would share
    attr_calls,     \* history: the <<key, value>> of every attribute call on c
    snapshots,      \* history: the state of c at each push into parent.children
    build_steps     \* the number of builder calls made

enum_vars == <<enum_input, enum_result, enum_pc>>
node_vars == <<tree, ser_out, node_pc>>
gen_vars == <<units, params, document, tracker, unit_idx,
              gen_pc, gen_result, order_log, pass_log>>

build_vars == <<source, parent, attr_calls, snapshots, build_steps>>

vars == <<enum_input, enum_result, enum_pc, tree, ser_out, write_out, node_pc, created,
          units, params, document, tracker, unit_idx,
          gen_pc, gen_result, order_log, pass_log,
          source, parent, attr_calls, snapshots, build_steps>>

(***************************************************************************)
(* Bounds                                                                  *)
(***************************************************************************)
MaxVariants == 3        \* longest enumerator list handed to the resolver
MaxChildren == 2        \* most children of a node of a hand-built tree
MaxUnits == 2           \* most compilation units of one generation run
MaxVars == 2            \* most variables of one variable block

(***************************************************************************)
(* Option<T>: None is the empty sequence, Some(x) the one-element sequence *)
(***************************************************************************)
None == <<>>
Some(x) == <<x>>
IsSome(o) == Len(o) = 1
Unwrap(o) == o[1]

(***************************************************************************)
(* i32 and its text form                                                   *)
(***************************************************************************)
I32Max == 2147483647
I32Min == (-2147483647) - 1

Digits == {"0", "1", "2", "3", "4", "5", "6", "7", "8", "9"}

DigitVal(c) ==
    CASE c = "0" -> 0 [] c = "1" -> 1 [] c = "2" -> 2 [] c = "3" -> 3
      [] c = "4" -> 4 [] c = "5" -> 5 [] c = "6" -> 6 [] c = "7" -> 7
      [] c = "8" -> 8 [] c = "9" -> 9

DigitChar(d) ==
    CASE d = 0 -> "0" [] d = 1 -> "1" [] d = 2 -> "2" [] d = 3 -> "3"
      [] d = 4 -> "4" [] d = 5 -> "5" [] d = 6 -> "6" [] d = 7 -> "7"
      [] d = 8 -> "8" [] d = 9 -> "9"

CharAt(s, k) == SubSeq(s, k, k)

\* Accumulates the digits s[k..] onto acc the way core's from_str_radix does:
\* positive numbers by checked acc*10 + d, negative ones by checked acc*10 - d.
\* The result is None on a non-digit or on leaving the i32 range.
RECURSIVE parse_digits(_, _, _, _)
parse_digits(s, k, acc, negative) ==
    IF k > Len(s) THEN Some(acc)
    ELSE IF CharAt(s, k) \notin Digits THEN None
    ELSE LET d == DigitVal(CharAt(s, k)) IN
         IF negative
         THEN IF acc < (I32Min + d) \div 10 + (IF (I32Min + d) % 10 = 0 THEN 0 ELSE 1)
              THEN None
              ELSE parse_digits(s, k + 1, acc * 10 - d, negative)
         ELSE IF acc > (I32Max - d) \div 10
              THEN None
              ELSE parse_digits(s, k + 1, acc * 10 + d, negative)

\* str::parse::<i32>: an optional sign, then one or more decimal digits.
parse_i32(s) ==
    IF Len(s) = 0 THEN None
    ELSE IF CharAt(s, 1) = "-"
         THEN IF Len(s) = 1 THEN None ELSE parse_digits(s, 2, 0, TRUE)
    ELSE IF CharAt(s, 1) = "+"
         THEN IF Len(s) = 1 THEN None ELSE parse_digits(s, 2, 0, FALSE)
    ELSE parse_digits(s, 1, 0, FALSE)

\* Decimal digits of n <= 0, peeled off from the negative side so that I32Min
\* needs no negation.
RECURSIVE neg_digits(_)
neg_digits(n) ==
    LET d == (10 - (n % 10)) % 10
        q == (n + d) \div 10
    IN IF n > -10 THEN DigitChar(-n) ELSE neg_digits(q) \o DigitChar(d)

\* i32::to_string: canonical decimal text, "-" only for negative numbers.
i32_to_string(n) ==
    IF n >= 0 THEN neg_digits(-n) ELSE "-" \o neg_digits(n)

\* Mutant: the sum wraps around at the largest i32.
checked_add_wrapping(x, y) ==
    Some(IF x > I32Max - y THEN I32Min + ((x - I32Max) + (y - 1)) ELSE x + y)

\* i32::checked_add for a non-negative right operand.
checked_add(x, y) == IF x > I32Max - y THEN None ELSE Some(x + y)

\* The value of a call made once: the one element of a singleton set.
The(S) == CHOOSE x \in S : TRUE

(***************************************************************************)
(* serializer.rs: Node                                                     *)
(***************************************************************************)
EmptyAttributes == [k \in {} |-> ""]

\* Node::new / Node::new_str
NewNode(name) ==
    [name |-> name, attributes |-> EmptyAttributes, children |-> <<>>,
     closed |-> FALSE, content |-> None]

\* Mutant: a key that is already present keeps its value.
MapInsert_first_wins(m, key, value) ==
    [k \in (DOMAIN m) \cup {key} |-> IF k \in DOMAIN m THEN m[k] ELSE value]

\* FxHashMap::insert as used by Node::attribute: insert or overwrite.
MapInsert(m, key, value) ==
    [k \in (DOMAIN m) \cup {key} |-> IF k = key THEN value ELSE m[k]]

\* Node::attribute / attribute_str
attribute(node, key, value) ==
    [node EXCEPT !.attributes = MapInsert(node.attributes, key, value)]

\* A builder object ($name_struct): its identity and the Node it wraps.
Builder(id, state) == [id |-> id, state |-> state]

\* Mutant: inner hands out the object itself, not a clone of its state.
inner_aliased(object) == [ref |-> object.id]

\* IntoNode::inner: self.0.clone(), the wrapped Node as it is at the call.
inner(object) == object.state

\* Mutant: a node equal to a child that is already there is not pushed again.
child_once(self, node) ==
    IF \E k \in 1..Len(self.children) : self.children[k] = node THEN self
    ELSE [self EXCEPT !.children = Append(self.children, node)]

\* Node::child / child_borrowed: pushes node.inner(), a clone of the argument.
child(self, node) == [self EXCEPT !.children = Append(self.children, node)]

\* Node::children: extends by the clones of the given nodes, in their order.
children(self, nodes) == [self EXCEPT !.children = self.children \o nodes]

\* Mutant: closing a node gives it an empty text.
close_with_content(self) == [self EXCEPT !.closed = TRUE, !.content = Some("")]

\* Node::close
close(self) == [self EXCEPT !.closed = TRUE]

\* $name_struct::content / Node::content_borrowed
content(self, input) == [self EXCEPT !.content = Some(input)]

\* Node::indent: level * 4 blanks, kept as their number.
indent(level) == level * 4

\* One line of serialize's text, by the pieces its format string is made of.
\*   "selfclosing"  {indent}<{name} {attributes_str}/>\n
\*   "content"      {indent}<{name}>{content}</{name}>\n
\*   "open"         {indent}<{name} {attributes_str}>\n
\*   "close"        {indent}</{name}>\n
\* attrs is what the line prints between the name and the bracket; text is
\* the payload between an opening and a closing tag on the same line.
Line(form, ind, name, attrs, text) ==
    [form |-> form, indent |-> ind, name |-> name, attrs |-> attrs, text |-> text]

\* Node::serialize_content: formats indent, name and content only.
serialize_content(ind, name, text) ==
    <<Line("content", ind, name, EmptyAttributes, Some(text))>>

RECURSIVE serialize(_, _)
\* The for_each over self.children: appends every child's text in order.
RECURSIVE serialize_children(_, _, _)
serialize_children(kids, k, level) ==
    IF k > Len(kids) THEN <<>>
    ELSE serialize(kids[k], level + 1) \o serialize_children(kids, k + 1, level)

\* Mutant: the content branch is tried before the closed branch.
serialize_content_first(self, level) ==
    IF IsSome(self.content)
    THEN serialize_content(indent(level), self.name, Unwrap(self.content))
    ELSE IF self.closed
    THEN <<Line("selfclosing", indent(level), self.name, self.attributes, None)>>
    ELSE <<Line("open", indent(level), self.name, self.attributes, None)>>
         \o serialize_children(self.children, 1, level)
         \o <<Line("close", indent(level), self.name, EmptyAttributes, None)>>

\* Node::serialize
serialize(self, level) ==
    IF self.closed
    THEN <<Line("selfclosing", indent(level), self.name, self.attributes, None)>>
    ELSE IF IsSome(self.content)
    THEN serialize_content(indent(level), self.name, Unwrap(self.content))
    ELSE <<Line("open", indent(level), self.name, self.attributes, None)>>
         \o serialize_children(self.children, 1, level)
         \o <<Line("close", indent(level), self.name, EmptyAttributes, None)>>

(***************************************************************************)
(* xml_gen.rs: write_xml_file                                              *)
(***************************************************************************)
EventKinds == {"StartDocument", "StartElement", "CData", "EndElement"}

\* One writer.write(event) call: the event, and whether the emitter returned
\* Err for it. `failing` is the set of event kinds the sink rejects.
Write(kind, name, attrs, text, failing) ==
    [kind |-> kind, name |-> name, attrs |-> attrs, text |-> text,
     failed |-> kind \in failing]

Ok == "Ok"
Err == "Err"

\* recurse_write_xml: every write's Result is bound to `_`; only a child's
\* Err leaves through `?`. Yields the writes made and the Result returned.
RECURSIVE recurse_write_xml(_, _)
\* The `for item in treenode.children.drain(0..)` loop with its `?`.
RECURSIVE recurse_write_children(_, _, _)
recurse_write_children(kids, k, failing) ==
    IF k > Len(kids) THEN [writes |-> <<>>, result |-> Ok]
    ELSE The({IF first.result = Err THEN first
              ELSE The({[writes |-> first.writes \o rest.writes, result |-> rest.result] :
                        rest \in {recurse_write_children(kids, k + 1, failing)}}) :
              first \in {recurse_write_xml(kids[k], failing)}})

\* Mutant: the text payload is written whether or not the node has children.
recurse_write_xml_content_always(treenode, failing) ==
    LET start == <<Write("StartElement", treenode.name, treenode.attributes, None, failing)>>
        content_event ==
            IF IsSome(treenode.content)
            THEN <<Write("CData", treenode.name, EmptyAttributes, treenode.content, failing)>>
            ELSE <<>>
        end == <<Write("EndElement", treenode.name, EmptyAttributes, None, failing)>>
    IN The({[writes |-> start \o content_event \o nested.writes \o end, result |-> nested.result] :
            nested \in {recurse_write_children(treenode.children, 1, failing)}})

recurse_write_xml(treenode, failing) ==
    LET start == <<Write("StartElement", treenode.name, treenode.attributes, None, failing)>>
        content_event ==
            IF IsSome(treenode.content) /\ Len(treenode.children) = 0
            THEN <<Write("CData", treenode.name, EmptyAttributes, treenode.content, failing)>>
            ELSE <<>>
        end == <<Write("EndElement", treenode.name, EmptyAttributes, None, failing)>>
    IN The({IF nested.result = Err
            THEN [writes |-> start \o content_event \o nested.writes, result |-> Err]
            ELSE [writes |-> start \o content_event \o nested.writes \o end, result |-> Ok] :
            nested \in {recurse_write_children(treenode.children, 1, failing)}})

\* Mutant: the tree is written whether or not the file was created.
write_xml_file_create_ignored(create_ok, treenode, failing) ==
    LET top == <<Write("StartDocument", "", EmptyAttributes, None, failing)>>
        body == recurse_write_xml(treenode, failing)
    IN [writes |-> top \o body.writes, result |-> body.result]

\* write_xml_file: File::create(..)? first, then the declaration, whose
\* Result is dropped, then the tree.
write_xml_file(create_ok, treenode, failing) ==
    IF ~create_ok THEN [writes |-> <<>>, result |-> Err]
    ELSE LET top == <<Write("StartDocument", "", EmptyAttributes, None, failing)>>
             body == recurse_write_xml(treenode, failing)
         IN [writes |-> top \o body.writes, result |-> body.result]

(***************************************************************************)
(* xml_gen.rs: format_enum_initials                                        *)
(***************************************************************************)
NameAndInitialValue(name, initial_value) ==
    [name |-> name, initial_value |-> initial_value]

Aborted == [aborted |-> TRUE]
Returned(v) == [aborted |-> FALSE, value |-> v]

\* Mutant: the probe takes parsed_value + increment without looking at
\* viewed_values.
probe_enum_value_unchecked(parsed_value, increment, viewed_values) ==
    LET new_value == checked_add(parsed_value, increment) IN
    IF ~IsSome(new_value) THEN None
    ELSE Some(i32_to_string(Unwrap(new_value)))

\* Mutant: the probe starts two above the parsed value.
RECURSIVE probe_enum_value_from_two(_, _, _)
probe_enum_value_from_two(parsed_value, increment, viewed_values) ==
    LET new_value == checked_add(parsed_value, increment + 1) IN
    IF ~IsSome(new_value) THEN None
    ELSE LET new_str == i32_to_string(Unwrap(new_value)) IN
         IF new_str \notin viewed_values THEN Some(new_str)
         ELSE probe_enum_value_from_two(parsed_value, increment + 1, viewed_values)

\* The inner `loop` of a conflict: probes parsed_value + increment for
\* increment = 1, 2, 3, ... and yields the first text not in viewed_values;
\* None when checked_add overflows (the expect("no overflow") panic).
RECURSIVE probe_enum_value(_, _, _)
probe_enum_value(parsed_value, increment, viewed_values) ==
    LET new_value == checked_add(parsed_value, increment) IN
    IF ~IsSome(new_value) THEN None
    ELSE LET new_str == i32_to_string(Unwrap(new_value)) IN
         IF new_str \notin viewed_values THEN Some(new_str)
         ELSE probe_enum_value(parsed_value, increment + 1, viewed_values)

RECURSIVE resolve_enum_variants(_, _, _)
\* Mutant: after a conflict the text that collided is recorded as seen, not
\* the text that was assigned.
resolve_enum_variants_not_recording(enum_variants, i, viewed_values) ==
    IF i > Len(enum_variants) THEN Returned(enum_variants)
    ELSE LET current_initial == enum_variants[i].initial_value IN
         IF current_initial \notin viewed_values
         THEN resolve_enum_variants(enum_variants, i + 1,
                                    viewed_values \cup {current_initial})
         ELSE LET parsed_value == parse_i32(current_initial) IN
              IF ~IsSome(parsed_value) THEN Aborted
              ELSE LET new_str == probe_enum_value(Unwrap(parsed_value), 1, viewed_values) IN
                   IF ~IsSome(new_str) THEN Aborted
                   ELSE resolve_enum_variants(
                            [enum_variants EXCEPT ![i].initial_value = Unwrap(new_str)],
                            i + 1,
                            viewed_values \cup {current_initial})

\* The `for i in 0..enum_variants.len()` loop, from index i (1-based) on.
\* Yields the rewritten vector, or Aborted when an expect() panics.
resolve_enum_variants(enum_variants, i, viewed_values) ==
    IF i > Len(enum_variants) THEN Returned(enum_variants)
    ELSE LET current_initial == enum_variants[i].initial_value IN
         IF current_initial \notin viewed_values
         THEN resolve_enum_variants(enum_variants, i + 1,
                                    viewed_values \cup {current_initial})
         ELSE LET parsed_value == parse_i32(current_initial) IN
              IF ~IsSome(parsed_value) THEN Aborted
              ELSE LET new_str == probe_enum_value(Unwrap(parsed_value), 1, viewed_values) IN
                   IF ~IsSome(new_str) THEN Aborted
                   ELSE resolve_enum_variants(
                            [enum_variants EXCEPT ![i].initial_value = Unwrap(new_str)],
                            i + 1,
                            viewed_values \cup {Unwrap(new_str)})

\* SEnumerator::new().attribute("name", ..).attribute("value", ..)
SEnumerator(a) ==
    attribute(attribute(NewNode("Enumerator"), "name", a.name), "value", a.initial_value)

format_enum_initials(enum_variants) ==
    LET resolved == resolve_enum_variants(enum_variants, 1, {}) IN
    IF resolved.aborted THEN Aborted
    ELSE Returned([k \in 1..Len(resolved.value) |-> SEnumerator(resolved.value[k])])

(***************************************************************************)
(* xml_gen.rs: the program-unit translator                                 *)
(***************************************************************************)
TYPES == "Types"
GLOBAL_NAMESPACE == "GlobalNamespace"
INSTANCES == "Instances"
CONFIGURATION == "Configuration"
RESOURCE == "Resource"
OMRON_SCHEMA == "https://www.ia.omron.com/Smc IEC61131_10_Ed1_0_SmcExt1_0_Spc1_0.xsd"

\* Local::now().to_rfc3339(): one representative instant.
Now == "2026-01-01T00:00:00+00:00"

\* Tags of the element builders xml_gen.rs uses.
SGenVariable == NewNode("Variable")
SInputVars == NewNode("InputVars")
SInoutVars == NewNode("InoutVars")
SOutputVars == NewNode("OutputVars")
SParameters == NewNode("Parameters")
SExternalVars == NewNode("ExternalVars")
STempVars == NewNode("TempVars")
SPouInfo == NewNode("PouInfo")
SResultType == NewNode("ResultType")
SAddress == NewNode("Address")
SVars == NewNode("SVars")

get_omron_template ==
    child(child(child(child(
        attribute(attribute(attribute(attribute(attribute(NewNode("Project"),
            "xmlns:xsi", "http://www.w3.org/2001/XMLSchema-instance"),
            "xmlns:smcext", "https://www.ia.omron.com/Smc"),
            "xsi:schemaLocation", OMRON_SCHEMA),
            "schemaVersion", "1"),
            "xmlns", "www.iec.ch/public/TC65SC65BWG7TF10"),
        attribute(attribute(attribute(NewNode("FileHeader"),
            "companyName", "OMRON Corporation"),
            "productName", "Sysmac Studio"),
            "productVersion", "1.30.0.0")),
        attribute(attribute(NewNode("ContentHeader"), "name", "Sample"),
            "creationDateTime", Now)),
        child(NewNode(TYPES), NewNode(GLOBAL_NAMESPACE))),
        NewNode(INSTANCES))

\* ---- text helpers -------------------------------------------------------
LowerChar(c) ==
    CASE c = "A" -> "a" [] c = "B" -> "b" [] c = "C" -> "c" [] c = "D" -> "d"
      [] c = "E" -> "e" [] c = "F" -> "f" [] c = "G" -> "g" [] c = "H" -> "h"
      [] c = "I" -> "i" [] c = "J" -> "j" [] c = "K" -> "k" [] c = "L" -> "l"
      [] c = "M" -> "m" [] c = "N" -> "n" [] c = "O" -> "o" [] c = "P" -> "p"
      [] c = "Q" -> "q" [] c = "R" -> "r" [] c = "S" -> "s" [] c = "T" -> "t"
      [] c = "U" -> "u" [] c = "V" -> "v" [] c = "W" -> "w" [] c = "X" -> "x"
      [] c = "Y" -> "y" [] c = "Z" -> "z" [] OTHER -> c

\* Mutant: the text is compared as it is written.
to_lowercase_verbatim(s) == s

\* str::to_lowercase on the ASCII texts of the model.
RECURSIVE to_lowercase(_)
to_lowercase(s) ==
    IF Len(s) = 0 THEN ""
    ELSE LowerChar(CharAt(s, 1)) \o to_lowercase(SubSeq(s, 2, Len(s)))

ends_with(s, suffix) ==
    Len(s) >= Len(suffix) /\ SubSeq(s, Len(s) - Len(suffix) + 1, Len(s)) = suffix

contains(s, pat) ==
    \E k \in 1..(Len(s) - Len(pat) + 1) : SubSeq(s, k, k + Len(pat) - 1) = pat

\* usize::to_string
RECURSIVE usize_to_string(_)
usize_to_string(n) ==
    IF n < 10 THEN DigitChar(n) ELSE usize_to_string(n \div 10) \o DigitChar(n % 10)

\* ---- the compiler's program representation, as far as xml_gen.rs reads it
\* Variable: name, data_type_declaration.get_name(), location.span # None,
\* initializer and address (None, or the statement with its literal text).
Variable(name, type_name, has_span, initializer, address) ==
    [name |-> name, type_name |-> type_name, has_span |-> has_span,
     initializer |-> initializer, address |-> address]

Literal(text) == [stmt |-> "Literal", text |-> text]
OtherStatement == [stmt |-> "Other", text |-> ""]

\* VariableBlock: kind is the VariableBlockType tag; publish is the
\* NetworkPublishMode a Global kind carries, already as its text.
VariableBlock(kind, constant, retain, variables) ==
    [kind |-> kind, publish |-> "DoNotPublish", constant |-> constant,
     retain |-> retain, variables |-> variables]

\* The position of the first child called `name`, 0 when there is none:
\* children.iter_mut().find(|a| a.name == name)
FindChild(node, name) ==
    IF \E k \in 1..Len(node.children) : node.children[k].name = name
    THEN CHOOSE k \in 1..Len(node.children) :
            /\ node.children[k].name = name
            /\ \A j \in 1..(k - 1) : node.children[j].name # name
    ELSE 0

\* Mutant: the probe reports its start value whatever the tracker holds.
probe_order_unchecked(pou_name, iteration_order, increment, preused_order) ==
    iteration_order + increment

\* The `loop` of generate_variable_element: iteration_order += increment;
\* increment += 1; leave with the first (pou_name, iteration_order) that
\* the tracker does not hold.
RECURSIVE probe_order(_, _, _, _)
probe_order(pou_name, iteration_order, increment, preused_order) ==
    LET next_order == iteration_order + increment IN
    IF <<pou_name, next_order>> \notin preused_order THEN next_order
    ELSE probe_order(pou_name, next_order, increment + 1, preused_order)

\* The type name written for a variable or member: the vendor placeholder
\* for string types when output_xml_omron is set.
written_typename(typename, generation_parameters) ==
    IF contains(to_lowercase(typename), "string") /\ generation_parameters.output_xml_omron
    THEN "String[1986]"
    ELSE typename

\* generate_variable_element. Yields the element (None when the variable has
\* no type name), the tracker afterwards, and the order it claimed, if any.
generate_variable_element(current_variable, generation_parameters, pou_name, schema_path, network_publish, preused_order, order, add_order) ==
    LET additional_property_node ==
            attribute(NewNode("GlobalVariableAdditionalProperties"),
                      "networkPublish", network_publish)
        data_node ==
            child(attribute(attribute(NewNode("Data"), "name", schema_path),
                            "handleUnknown", "discard"),
                  additional_property_node)
        adddata_node == child(NewNode("AddData"), data_node)
        node0 == child(attribute(SGenVariable, "name", current_variable.name), adddata_node)
    IN IF ~IsSome(current_variable.type_name)
       THEN [node |-> None, preused_order |-> preused_order, claimed |-> None]
       ELSE
       LET typename == written_typename(Unwrap(current_variable.type_name), generation_parameters)
           typenode == child(NewNode("Type"), content(NewNode("TypeName"), typename))
           node1 == child(node0, typenode)
           iteration_order == probe_order(pou_name, order, 0, preused_order)
           node2 == IF add_order
                    THEN attribute(node1, "orderWithinParamSet", usize_to_string(iteration_order))
                    ELSE node1
           node3 == IF IsSome(current_variable.initializer)
                       /\ Unwrap(current_variable.initializer).stmt = "Literal"
                    THEN child(node2,
                               child(NewNode("InitialValue"),
                                     close(attribute(NewNode("SimpleValue"), "value",
                                                     Unwrap(current_variable.initializer).text))))
                    ELSE node2
           node4 == IF IsSome(current_variable.address)
                       /\ Unwrap(current_variable.address).stmt = "Literal"
                    THEN child(node3, attribute(SAddress, "address",
                                                Unwrap(current_variable.address).text))
                    ELSE node3
       IN [node |-> Some(node4),
           preused_order |-> IF add_order
                             THEN preused_order \cup {<<pou_name, iteration_order>>}
                             ELSE preused_order,
           claimed |-> IF add_order
                       THEN Some([pou |-> pou_name, order |-> iteration_order, index |-> order])
                       ELSE None]

\* What a sub-pass hands back: its Result (Ok, Err, or Panic when an expect()
\* or panic!() fires), the document and the tracker afterwards, and the
\* (unit name, order) pairs it wrote as orderWithinParamSet, in order.
Panic == "Panic"
PassResult(result, root, preused_order, claims) ==
    [result |-> result, root |-> root, preused_order |-> preused_order, claims |-> claims]

\* A claim with the kind of the block its variable was declared in.
Tagged(claimed, kind) ==
    IF IsSome(claimed)
    THEN Some([pou |-> Unwrap(claimed).pou, order |-> Unwrap(claimed).order,
               index |-> Unwrap(claimed).index, kind |-> kind])
    ELSE None

\* ---- generate_globals ---------------------------------------------------
RECURSIVE globals_block_variables(_, _, _, _, _, _)
\* Mutant: the loop ends at the first variable it does not emit.
globals_block_variables_until_skip(current_global, b, generation_parameters, unit_name, schema_path, preused_order) ==
    IF b >= Len(current_global.variables)
    THEN [nodes |-> <<>>, preused_order |-> preused_order, claims |-> <<>>]
    ELSE LET current_variable == current_global.variables[b + 1] IN
         IF ~current_variable.has_span \/ current_global.kind # "Global"
            \/ ~IsSome(current_variable.type_name)
         THEN [nodes |-> <<>>, preused_order |-> preused_order, claims |-> <<>>]
         ELSE The({The({[nodes |-> made.node \o rest.nodes,
                         preused_order |-> rest.preused_order,
                         claims |-> rest.claims] :
                        rest \in {globals_block_variables(current_global, b + 1,
                                      generation_parameters, unit_name, schema_path,
                                      made.preused_order)}}) :
                   made \in {generate_variable_element(current_variable, generation_parameters,
                                 unit_name, schema_path, current_global.publish,
                                 preused_order, b, FALSE)}})

\* Mutant: the globals pass asks for an order number for every variable.
globals_block_variables_with_order(current_global, b, generation_parameters, unit_name, schema_path, preused_order) ==
    IF b >= Len(current_global.variables)
    THEN [nodes |-> <<>>, preused_order |-> preused_order, claims |-> <<>>]
    ELSE LET current_variable == current_global.variables[b + 1] IN
         IF ~current_variable.has_span \/ current_global.kind # "Global"
         THEN globals_block_variables(current_global, b + 1, generation_parameters,
                                      unit_name, schema_path, preused_order)
         ELSE The({The({[nodes |-> made.node \o rest.nodes,
                         preused_order |-> rest.preused_order,
                         claims |-> Tagged(made.claimed, current_global.kind) \o rest.claims] :
                        rest \in {globals_block_variables(current_global, b + 1,
                                      generation_parameters, unit_name, schema_path,
                                      made.preused_order)}}) :
                   made \in {generate_variable_element(current_variable, generation_parameters,
                                 unit_name, schema_path, current_global.publish,
                                 preused_order, b, TRUE)}})

\* The inner loop over current_global.variables, from index b (0-based) on.
globals_block_variables(current_global, b, generation_parameters, unit_name, schema_path, preused_order) ==
    IF b >= Len(current_global.variables)
    THEN [nodes |-> <<>>, preused_order |-> preused_order, claims |-> <<>>]
    ELSE LET current_variable == current_global.variables[b + 1] IN
         IF ~current_variable.has_span \/ current_global.kind # "Global"
         THEN globals_block_variables(current_global, b + 1, generation_parameters,
                                      unit_name, schema_path, preused_order)
         ELSE The({The({[nodes |-> made.node \o rest.nodes,
                         preused_order |-> rest.preused_order,
                         claims |-> Tagged(made.claimed, current_global.kind) \o rest.claims] :
                        rest \in {globals_block_variables(current_global, b + 1,
                                      generation_parameters, unit_name, schema_path,
                                      made.preused_order)}}) :
                   made \in {generate_variable_element(current_variable, generation_parameters,
                                 unit_name, schema_path, current_global.publish,
                                 preused_order, b, FALSE)}})

RECURSIVE globals_blocks(_, _, _, _, _, _)
\* Mutant: every block's variables go to the container without flags.
RECURSIVE globals_blocks_unsorted(_, _, _, _, _, _)
globals_blocks_unsorted(current_unit, a, generation_parameters, unit_name, schema_path, acc) ==
    IF a >= Len(current_unit.global_vars) THEN acc
    ELSE The({globals_blocks_unsorted(current_unit, a + 1, generation_parameters, unit_name,
                                      schema_path, next_acc) :
              next_acc \in {
                [acc EXCEPT !.preused_order = parsed.preused_order,
                            !.claims = acc.claims \o parsed.claims,
                            !.normal_globals = children(acc.normal_globals, parsed.nodes)] :
                parsed \in {globals_block_variables(current_unit.global_vars[a + 1], 0,
                                generation_parameters, unit_name, schema_path,
                                acc.preused_order)}}})

\* The outer loop over current_unit.global_vars, from index a (0-based) on;
\* acc holds the four GlobalVars containers, the tracker and the claims.
globals_blocks(current_unit, a, generation_parameters, unit_name, schema_path, acc) ==
    IF a >= Len(current_unit.global_vars) THEN acc
    ELSE LET current_global == current_unit.global_vars[a + 1] IN
         The({globals_blocks(current_unit, a + 1, generation_parameters, unit_name,
                             schema_path, next_acc) :
              next_acc \in {
         LET acc1 == [acc EXCEPT !.preused_order = parsed.preused_order,
                                 !.claims = acc.claims \o parsed.claims]
         IN          IF current_global.constant /\ current_global.retain
                     THEN [acc1 EXCEPT !.constant_retain_globals =
                               children(acc1.constant_retain_globals, parsed.nodes)]
                     ELSE IF current_global.constant
                     THEN [acc1 EXCEPT !.constant_globals =
                               children(acc1.constant_globals, parsed.nodes)]
                     ELSE IF current_global.retain
                     THEN [acc1 EXCEPT !.retain_globals =
                               children(acc1.retain_globals, parsed.nodes)]
                     ELSE [acc1 EXCEPT !.normal_globals =
                               children(acc1.normal_globals, parsed.nodes)] :
              parsed \in {globals_block_variables(current_global, 0, generation_parameters,
                              unit_name, schema_path, acc.preused_order)}}})

generate_globals(generation_parameters, current_unit, unit_name, schema_path, preused_order, output_root) ==
    LET at == FindChild(output_root, INSTANCES) IN
    IF at = 0 THEN PassResult(Err, output_root, preused_order, <<>>)
    ELSE
    LET acc0 == [constant_retain_globals |->
                     attribute(attribute(NewNode("GlobalVars"), "constant", "true"),
                               "retain", "true"),
                 constant_globals |-> attribute(NewNode("GlobalVars"), "constant", "true"),
                 retain_globals |-> attribute(NewNode("GlobalVars"), "retain", "true"),
                 normal_globals |-> NewNode("GlobalVars"),
                 preused_order |-> preused_order,
                 claims |-> <<>>]
    IN The({
    LET resource_node ==
            child(child(child(child(
                attribute(attribute(NewNode(RESOURCE), "name", unit_name \o "_" \o RESOURCE),
                          "resourceTypeName", ""),
                acc.constant_retain_globals),
                acc.constant_globals),
                acc.retain_globals),
                acc.normal_globals)
        configuration_node ==
            child(attribute(NewNode(CONFIGURATION), "name", unit_name \o "_" \o CONFIGURATION),
                  resource_node)
    IN PassResult(Ok,
                  [output_root EXCEPT !.children[at] = child(@, configuration_node)],
                  acc.preused_order, acc.claims) :
        acc \in {globals_blocks(current_unit, 0, generation_parameters, unit_name,
                                schema_path, acc0)}})

\* ---- generate_custom_types ----------------------------------------------
\* parse_enum_expression: the variant name from ReferenceExpr/Member/
\* Identifier and the literal text from the right side (a Literal, or the
\* Literal at the right of a BinaryExpression); None when a panic!() fires.
parse_enum_expression(input) ==
    IF input.left.stmt # "ReferenceExpr" THEN None
    ELSE IF input.left.access # "Member" THEN None
    ELSE IF input.left.member.stmt # "Identifier" THEN None
    ELSE IF input.right.stmt = "Literal"
         THEN Some(NameAndInitialValue(input.left.member.name, input.right.text))
    ELSE IF input.right.stmt = "BinaryExpression"
         THEN IF input.right.right.stmt = "Literal"
              THEN Some(NameAndInitialValue(input.left.member.name, input.right.right.text))
              ELSE None
    ELSE None

\* The enumerators of `elements`: an ExpressionList of Assignments, or one
\* Assignment; None when a panic!() fires.
enum_enumerators(elements) ==
    IF elements.stmt = "ExpressionList"
    THEN IF \A k \in 1..Len(elements.nodes) :
                /\ elements.nodes[k].stmt = "Assignment"
                /\ IsSome(parse_enum_expression(elements.nodes[k]))
         THEN Some([k \in 1..Len(elements.nodes) |->
                        Unwrap(parse_enum_expression(elements.nodes[k]))])
         ELSE None
    ELSE IF elements.stmt = "Assignment"
    THEN IF IsSome(parse_enum_expression(elements))
         THEN Some(<<Unwrap(parse_enum_expression(elements))>>)
         ELSE None
    ELSE None

RECURSIVE struct_members(_, _, _, _)
\* Mutant: a field without a type name still becomes a Member.
struct_members_untyped_too(variables, b, generation_parameters, spec_node) ==
    IF b >= Len(variables) THEN spec_node
    ELSE struct_members(variables, b + 1, generation_parameters,
                        child(spec_node, attribute(NewNode("Member"), "name",
                                                   variables[b + 1].name)))

\* The Member loop of a struct, from field index b (0-based) on.
struct_members(variables, b, generation_parameters, spec_node) ==
    IF b >= Len(variables) THEN spec_node
    ELSE LET current_variable == variables[b + 1] IN
         IF ~IsSome(current_variable.type_name)
         THEN struct_members(variables, b + 1, generation_parameters, spec_node)
         ELSE LET typename == written_typename(Unwrap(current_variable.type_name),
                                               generation_parameters)
                  type_node == child(NewNode("Type"), content(NewNode("TypeName"), typename))
                  member_node == child(attribute(NewNode("Member"), "name",
                                                 current_variable.name), type_node)
              IN struct_members(variables, b + 1, generation_parameters,
                                child(spec_node, member_node))

\* Mutant: the BaseType is added before the Enumerators.
enum_spec_node_base_first(formatted, base_node) ==
    children(child(attribute(NewNode("UserDefinedTypeSpec"), "xsi:type",
                             "EnumTypeWithNamedValueSpec"), base_node),
             formatted)

\* spec_node of an enum: the formatted Enumerators, then the BaseType.
enum_spec_node(formatted, base_node) ==
    child(children(attribute(NewNode("UserDefinedTypeSpec"), "xsi:type",
                             "EnumTypeWithNamedValueSpec"),
                   formatted), base_node)

\* The DataTypeDecl of one user type: [panic, skip, decl]. skip stands for
\* the `continue` of an anonymous type, decl is customtype_maybe.
custom_type_decl(current_usertype, generation_parameters) ==
    LET dt == current_usertype.data_type IN
    IF dt.tag = "StructType"
    THEN IF ~IsSome(dt.name) THEN [panic |-> FALSE, decl |-> None]
         ELSE LET spec_node ==
                      struct_members(dt.variables, 0, generation_parameters,
                          attribute(NewNode("UserDefinedTypeSpec"), "xsi:type", "StructTypeSpec"))
              IN IF Len(spec_node.children) = 0
                 THEN [panic |-> FALSE, decl |-> None]
                 ELSE [panic |-> FALSE,
                       decl |-> Some(child(attribute(NewNode("DataTypeDecl"), "name",
                                                     Unwrap(dt.name)), spec_node))]
    ELSE IF dt.tag = "EnumType"
    THEN IF ~IsSome(dt.name) THEN [panic |-> FALSE, decl |-> None]
         ELSE LET enumerators == enum_enumerators(dt.elements) IN
              IF ~IsSome(enumerators) THEN [panic |-> TRUE, decl |-> None]
              ELSE LET base_node == content(NewNode("BaseType"), dt.numeric_type)
                       formatted == format_enum_initials(Unwrap(enumerators))
                   IN IF formatted.aborted THEN [panic |-> TRUE, decl |-> None]
                      ELSE LET spec_node == enum_spec_node(formatted.value, base_node)
                           IN [panic |-> FALSE,
                               decl |-> Some(child(attribute(NewNode("DataTypeDecl"), "name",
                                                             Unwrap(dt.name)), spec_node))]
    ELSE [panic |-> FALSE, decl |-> None]

\* The loop over current_unit.user_types, from index a (0-based) on;
\* global_root is the GlobalNamespace node being extended.
RECURSIVE custom_types_loop(_, _, _, _)
custom_types_loop(current_unit, a, generation_parameters, global_root) ==
    IF a >= Len(current_unit.user_types) THEN [panic |-> FALSE, node |-> global_root]
    ELSE LET current_usertype == current_unit.user_types[a + 1] IN
         IF ~current_usertype.has_span
         THEN custom_types_loop(current_unit, a + 1, generation_parameters, global_root)
         ELSE The({IF made.panic THEN [panic |-> TRUE, node |-> global_root]
                   ELSE custom_types_loop(current_unit, a + 1, generation_parameters,
                            IF IsSome(made.decl) THEN child(global_root, Unwrap(made.decl))
                            ELSE global_root) :
                   made \in {custom_type_decl(current_usertype, generation_parameters)}})

\* Mutant: the declarations are appended to the Types node itself.
generate_custom_types_into_types(generation_parameters, current_unit, preused_order, output_root) ==
    LET t == FindChild(output_root, TYPES) IN
    IF t = 0 THEN PassResult(Err, output_root, preused_order, <<>>)
    ELSE The({PassResult(IF done.panic THEN Panic ELSE Ok,
                         [output_root EXCEPT !.children[t] = done.node],
                         preused_order, <<>>) :
              done \in {custom_types_loop(current_unit, 0, generation_parameters,
                                          output_root.children[t])}})

\* Mutant: a missing GlobalNamespace is added to Types before the error is
\* returned.
generate_custom_types_adding_anchor(generation_parameters, current_unit, preused_order, output_root) ==
    LET t == FindChild(output_root, TYPES) IN
    IF t = 0 THEN PassResult(Err, output_root, preused_order, <<>>)
    ELSE LET g == FindChild(output_root.children[t], GLOBAL_NAMESPACE) IN
    IF g = 0
    THEN PassResult(Err, [output_root EXCEPT !.children[t] = child(@, NewNode(GLOBAL_NAMESPACE))],
                    preused_order, <<>>)
    ELSE The({PassResult(IF done.panic THEN Panic ELSE Ok,
                         [output_root EXCEPT !.children[t].children[g] = done.node],
                         preused_order, <<>>) :
              done \in {custom_types_loop(current_unit, 0, generation_parameters,
                                          output_root.children[t].children[g])}})

generate_custom_types(generation_parameters, current_unit, preused_order, output_root) ==
    LET t == FindChild(output_root, TYPES) IN
    IF t = 0 THEN PassResult(Err, output_root, preused_order, <<>>)
    ELSE LET g == FindChild(output_root.children[t], GLOBAL_NAMESPACE) IN
    IF g = 0 THEN PassResult(Err, output_root, preused_order, <<>>)
    ELSE The({PassResult(IF done.panic THEN Panic ELSE Ok,
                         [output_root EXCEPT !.children[t].children[g] = done.node],
                         preused_order, <<>>) :
              done \in {custom_types_loop(current_unit, 0, generation_parameters,
                                          output_root.children[t].children[g])}})

\* ---- generate_pous ------------------------------------------------------
\* The source files on disk: path -> text.
SourceFiles == [p \in {"main.st"} |-> "x := 1;"]

\* grab_file_statement_from_span: [panic, text]. The file must open
\* (expect), a negative size yields None, read_exact must find `size` bytes
\* from the start offset (expect).
grab_file_statement_from_span(file_path, range) ==
    IF file_path \notin DOMAIN SourceFiles THEN [panic |-> TRUE, text |-> None]
    ELSE IF range.end < range.start THEN [panic |-> FALSE, text |-> None]
    ELSE IF range.end > range.start /\ range.end > Len(SourceFiles[file_path])
         THEN [panic |-> TRUE, text |-> None]
    ELSE [panic |-> FALSE,
          text |-> Some(SubSeq(SourceFiles[file_path], range.start + 1, range.end))]

\* The `match current_block.kind` that puts a variable element into its
\* container; a kind without an arm leaves every container as it was.
place_variable(acc, current_block, variable_node) ==
    IF current_block.kind = "Local"
    THEN IF current_block.constant /\ current_block.retain
         THEN [acc EXCEPT !.constant_retain_vars = child(@, variable_node)]
         ELSE IF current_block.constant
         THEN [acc EXCEPT !.constant_vars = child(@, variable_node)]
         ELSE IF current_block.retain
         THEN [acc EXCEPT !.retain_vars = child(@, variable_node)]
         ELSE [acc EXCEPT !.vars = child(@, variable_node)]
    ELSE IF current_block.kind = "Temp"
    THEN IF current_block.constant
         THEN [acc EXCEPT !.constant_temp_vars = child(@, variable_node)]
         ELSE [acc EXCEPT !.temp_vars = child(@, variable_node)]
    ELSE IF current_block.kind = "Input"
    THEN [acc EXCEPT !.input_vars = child(@, variable_node)]
    ELSE IF current_block.kind = "Output"
    THEN [acc EXCEPT !.output_vars = child(@, variable_node)]
    ELSE IF current_block.kind = "InOut"
    THEN [acc EXCEPT !.inout_vars = child(@, variable_node)]
    ELSE IF current_block.kind = "External"
    THEN IF current_block.constant
         THEN [acc EXCEPT !.constant_externals = child(@, variable_node)]
         ELSE [acc EXCEPT !.externals = child(@, variable_node)]
    ELSE acc

\* use_order_attr of generate_pous.
use_order_attr(current_block) ==
    current_block.kind # "Local" /\ current_block.kind # "External"

\* The loops over matching_metadata.variable_blocks (b) and over the block's
\* variables (c), both 0-based, from (b, c) on.
RECURSIVE pou_variables(_, _, _, _, _, _)
pou_variables(matching_metadata, b, c, generation_parameters, schema_path, acc) ==
    IF b >= Len(matching_metadata.variable_blocks) THEN acc
    ELSE LET current_block == matching_metadata.variable_blocks[b + 1] IN
    IF c >= Len(current_block.variables)
    THEN pou_variables(matching_metadata, b + 1, 0, generation_parameters, schema_path, acc)
    ELSE LET current_variable == current_block.variables[c + 1] IN
    IF ~current_variable.has_span
    THEN pou_variables(matching_metadata, b, c + 1, generation_parameters, schema_path, acc)
    ELSE LET network_publish ==
                 IF current_block.kind = "Global" THEN current_block.publish
                 ELSE "DoNotPublish"
         IN The({pou_variables(matching_metadata, b, c + 1, generation_parameters,
                               schema_path, next_acc) :
                 next_acc \in {
                   LET acc1 == [acc EXCEPT !.param_order = made.preused_order,
                                           !.claims = acc.claims
                                               \o Tagged(made.claimed, current_block.kind)]
                   IN IF IsSome(made.node)
                      THEN place_variable(acc1, current_block, Unwrap(made.node))
                      ELSE acc1 :
                   made \in {generate_variable_element(current_variable,
                                 generation_parameters, matching_metadata.name, schema_path,
                                 network_publish, acc.param_order, c,
                                 use_order_attr(current_block))}}})

\* The first POU called like the implementation: pous.iter().find(..)
FindPou(current_unit, name) ==
    IF \E k \in 1..Len(current_unit.pous) : current_unit.pous[k].name = name
    THEN Some(current_unit.pous[
             CHOOSE k \in 1..Len(current_unit.pous) :
                /\ current_unit.pous[k].name = name
                /\ \A j \in 1..(k - 1) : current_unit.pous[j].name # name])
    ELSE None

\* The element of one implementation that passed the skip tests.
pou_element(current_impl, matching_metadata, procedure_text, schema_path, acc) ==
    LET info_node == attribute(attribute(SPouInfo, "version", "0.0.0"),
                               "creationDateTime", Now)
        data_node == child(attribute(attribute(NewNode("Data"), "name", schema_path),
                                     "handleUnknown", "discard"), info_node)
        adddata_node == child(NewNode("AddData"), data_node)
        typename_node ==
            IF current_impl.pou_type \in {"Function", "FunctionBlock"}
               /\ IsSome(matching_metadata.return_type)
               /\ IsSome(Unwrap(matching_metadata.return_type))
            THEN content(NewNode("TypeName"), Unwrap(Unwrap(matching_metadata.return_type)))
            ELSE content(NewNode("TypeName"), "BOOL")
        resulttype_node == child(SResultType, typename_node)
        parameters_node ==
            child(child(child(SParameters, acc.input_vars), acc.inout_vars), acc.output_vars)
        st_element == IF Len(procedure_text) > 0 THEN content(NewNode("ST"), procedure_text)
                      ELSE NewNode("ST")
        body_content == child(attribute(NewNode("BodyContent"), "xsi:type", "ST"), st_element)
        main_body == child(NewNode("MainBody"), body_content)
    IN IF current_impl.pou_type = "Program"
       THEN child(child(child(child(child(child(child(child(
                attribute(NewNode("Program"), "name", current_impl.name),
                adddata_node), acc.externals), acc.constant_externals), acc.vars),
                acc.constant_vars), acc.retain_vars), acc.constant_retain_vars), main_body)
       ELSE IF current_impl.pou_type = "Function"
       THEN child(child(child(child(child(child(child(child(
                attribute(NewNode("Function"), "name", current_impl.name),
                adddata_node), resulttype_node), parameters_node), acc.externals),
                acc.constant_externals), acc.temp_vars), acc.constant_temp_vars), main_body)
       ELSE child(child(child(child(child(child(
                attribute(NewNode("FunctionBlock"), "name", current_impl.name),
                adddata_node), parameters_node), acc.externals), acc.constant_externals),
                acc.vars), main_body)

\* The loop over current_unit.implementations, from index a (0-based) on.
\* st holds the GlobalNamespace node, the tracker and the claims so far.
RECURSIVE pous_loop(_, _, _, _, _)
pous_loop(current_unit, a, generation_parameters, schema_path, st) ==
    IF a >= Len(current_unit.implementations) THEN st
    ELSE LET current_impl == current_unit.implementations[a + 1]
             found == FindPou(current_unit, current_impl.name)
             skip == pous_loop(current_unit, a + 1, generation_parameters, schema_path, st)
         IN
    IF ~IsSome(found) THEN [st EXCEPT !.panic = TRUE]
    ELSE IF current_impl.pou_type \notin {"Program", "Function", "FunctionBlock"} THEN skip
    ELSE IF current_impl.linkage = "External" THEN skip
    ELSE IF current_impl.location.span # "Range" THEN skip
    ELSE IF current_impl.location.file.marker # "File" THEN skip
    ELSE LET grabbed == grab_file_statement_from_span(current_impl.location.file.path,
                                                      current_impl.location.range) IN
    IF grabbed.panic THEN [st EXCEPT !.panic = TRUE]
    ELSE IF ~IsSome(grabbed.text) THEN skip
    ELSE LET matching_metadata == Unwrap(found)
             acc0 == [input_vars |-> SInputVars, inout_vars |-> SInoutVars,
                      output_vars |-> SOutputVars,
                      externals |-> SExternalVars,
                      constant_externals |-> attribute(SExternalVars, "constant", "true"),
                      vars |-> attribute(SVars, "accessSpecifier", "private"),
                      constant_vars |->
                          attribute(attribute(SVars, "accessSpecifier", "private"),
                                    "constant", "true"),
                      retain_vars |->
                          attribute(attribute(SVars, "accessSpecifier", "private"),
                                    "retain", "true"),
                      constant_retain_vars |->
                          attribute(attribute(attribute(SVars, "accessSpecifier", "private"),
                                              "constant", "true"), "retain", "true"),
                      temp_vars |-> STempVars,
                      constant_temp_vars |-> attribute(STempVars, "constant", "true"),
                      param_order |-> st.param_order,
                      claims |-> st.claims]
         IN The({pous_loop(current_unit, a + 1, generation_parameters, schema_path,
                           next_st) :
                 next_st \in {
                   LET chosen_element == pou_element(current_impl, matching_metadata,
                                                     Unwrap(grabbed.text), schema_path, acc)
                   IN [st EXCEPT !.global_root = child(@, chosen_element),
                                 !.param_order = acc.param_order,
                                 !.claims = acc.claims] :
                   acc \in {pou_variables(matching_metadata, 0, 0, generation_parameters,
                                          schema_path, acc0)}}})

generate_pous(generation_parameters, current_unit, schema_path, param_order, output_root) ==
    LET t == FindChild(output_root, TYPES) IN
    IF t = 0 THEN PassResult(Err, output_root, param_order, <<>>)
    ELSE LET g == FindChild(output_root.children[t], GLOBAL_NAMESPACE) IN
    IF g = 0 THEN PassResult(Err, output_root, param_order, <<>>)
    ELSE The({PassResult(IF done.panic THEN Panic ELSE Ok,
                         [output_root EXCEPT !.children[t].children[g] = done.global_root],
                         done.param_order, done.claims) :
              done \in {pous_loop(current_unit, 0, generation_parameters, schema_path,
                            [global_root |-> output_root.children[t].children[g],
                             param_order |-> param_order, claims |-> <<>>,
                             panic |-> FALSE])}})

(***************************************************************************)
(* The resolver called on its own, on every bounded candidate list         *)
(***************************************************************************)
EnumNames == {"A", "B"}

\* Texts a candidate may carry: canonical integers, non-canonical spellings
\* of an integer, a text that is no integer, the largest i32 and the one
\* below it.
EnumValueStrings ==
    {"0", "1", "-1", "5", "+1", "01", "x", "2147483646", "2147483647"}

EnumCandidates ==
    {NameAndInitialValue(n, v) : n \in EnumNames, v \in EnumValueStrings}

SeqsUpTo(S, n) == UNION {[1..k -> S] : k \in 0..n}

NoResult == [aborted |-> FALSE, value |-> <<>>]

NoWrites == [writes |-> <<>>, result |-> Ok]

\* The variables of a part of the model that a specification leaves out.
EnumIdle == enum_input = <<>> /\ enum_result = NoResult /\ enum_pc = "idle"
NodeIdle ==
    /\ tree = NewNode("") /\ ser_out = <<>> /\ node_pc = "idle"
WriterIdle == write_out = NoWrites /\ created = FALSE
GenIdle ==
    /\ units = <<>> /\ params = [output_xml_omron |-> FALSE]
    /\ document = NewNode("") /\ tracker = {} /\ unit_idx = 0
    /\ gen_pc = "idle" /\ gen_result = "NoReturn"
    /\ order_log = <<>> /\ pass_log = <<>>
BuildIdle ==
    /\ source = NewNode("") /\ parent = NewNode("")
    /\ attr_calls = <<>> /\ snapshots = <<>> /\ build_steps = 0

EnumInit ==
    /\ enum_input \in SeqsUpTo(EnumCandidates, MaxVariants)
    /\ enum_result = NoResult
    /\ enum_pc = "ready"
    /\ NodeIdle /\ WriterIdle /\ GenIdle /\ BuildIdle

CallFormatEnumInitials ==
    /\ enum_pc = "ready"
    /\ enum_result' = format_enum_initials(enum_input)
    /\ enum_pc' = IF enum_result'.aborted THEN "aborted" ELSE "done"
    /\ UNCHANGED <<enum_input, node_vars, write_out, created, gen_vars, build_vars>>

\* The (name, value) pairs of the Enumerators a call returned.
ReturnedPairs ==
    [k \in 1..Len(enum_result.value) |->
        NameAndInitialValue(enum_result.value[k].attributes["name"],
                            enum_result.value[k].attributes["value"])]

\* format_enum_initials called on the pairs it returned.
CallFormatEnumInitialsAgain ==
    /\ enum_pc = "done"
    /\ enum_input' = ReturnedPairs
    /\ enum_result' = format_enum_initials(enum_input')
    /\ enum_pc' = IF enum_result'.aborted THEN "aborted" ELSE "fed_back"
    /\ UNCHANGED <<node_vars, write_out, created, gen_vars, build_vars>>

EnumNext == CallFormatEnumInitials \/ CallFormatEnumInitialsAgain

SpecEnum == EnumInit /\ [][EnumNext]_vars

InputValues == [k \in 1..Len(enum_input) |-> enum_input[k].initial_value]
OutputValues == [k \in 1..Len(enum_result.value) |-> enum_result.value[k].attributes["value"]]

\* C1: whenever format_enum_initials returns, its output has the length of
\* the input, the i-th output is an Enumerator named like the i-th candidate,
\* and the output value texts are pairwise distinct.
C1_LengthNamesDistinct ==
    enum_pc = "done" =>
        /\ Len(enum_result.value) = Len(enum_input)
        /\ \A k \in 1..Len(enum_input) :
              /\ enum_result.value[k].name = "Enumerator"
              /\ enum_result.value[k].attributes["name"] = enum_input[k].name
        /\ \A j, k \in 1..Len(enum_result.value) :
              j # k => OutputValues[j] # OutputValues[k]

\* A returned call in which a conflict was resolved by rewriting a value.
C1_Witness ==
    /\ enum_pc = "done"
    /\ Len(enum_input) = MaxVariants
    /\ \E k \in 1..Len(enum_input) : OutputValues[k] # InputValues[k]

\* The sequential greedy reference, stated on the finished output: with seen
\* the values assigned to the earlier candidates, candidate i keeps its text
\* when it is not seen, and otherwise gets the text of the smallest v + k,
\* k >= 1, that is not seen.
GreedyReference(in, out) ==
    /\ Len(out) = Len(in)
    /\ \A i \in 1..Len(in) :
         LET seen == {out[j] : j \in 1..(i - 1)}
             v == in[i]
         IN IF v \notin seen THEN out[i] = v
            ELSE /\ IsSome(parse_i32(v))
                 /\ \E k \in 1..i :
                      /\ Unwrap(parse_i32(v)) <= I32Max - k
                      /\ out[i] = i32_to_string(Unwrap(parse_i32(v)) + k)
                      /\ out[i] \notin seen
                      /\ \A m \in 1..(k - 1) :
                            i32_to_string(Unwrap(parse_i32(v)) + m) \in seen

\* C2: a returned call equals the sequential greedy reference, and the four
\* worked cases [0,0,1], [5,5,5], [-1,-1], [0,1,0] come out as
\* [0,1,2], [5,6,7], [-1,0], [0,1,2].
C2_GreedyReference ==
    /\ enum_pc = "done" => GreedyReference(InputValues, OutputValues)
    /\ enum_pc # "ready" =>
        /\ InputValues = <<"0", "0", "1">> =>
              enum_pc = "done" /\ OutputValues = <<"0", "1", "2">>
        /\ InputValues = <<"5", "5", "5">> =>
              enum_pc = "done" /\ OutputValues = <<"5", "6", "7">>
        /\ InputValues = <<"-1", "-1">> =>
              enum_pc = "done" /\ OutputValues = <<"-1", "0">>
        /\ InputValues = <<"0", "1", "0">> =>
              enum_pc = "done" /\ OutputValues = <<"0", "1", "2">>

\* The cascading case: the third candidate's own value was claimed by the
\* auto-increment of the second.
C2_Witness ==
    /\ enum_pc = "done"
    /\ InputValues = <<"0", "0", "1">>
    /\ OutputValues = <<"0", "1", "2">>

\* Candidate i collides and every value from its own plus one up to the
\* largest i32 is already assigned by the candidates before it.
NeedsAboveMax(i) ==
    \E earlier \in {format_enum_initials(SubSeq(enum_input, 1, i - 1))} :
       /\ ~earlier.aborted
       /\ LET seen == {earlier.value[j].attributes["value"] : j \in 1..(i - 1)}
              parsed == parse_i32(InputValues[i])
          IN /\ InputValues[i] \in seen
             /\ IsSome(parsed)
             /\ Unwrap(parsed) > I32Max - i
             /\ \A m \in 1..(I32Max - Unwrap(parsed)) :
                   i32_to_string(Unwrap(parsed) + m) \in seen

\* C19: when resolving a colliding enumerator would need a value above the
\* largest i32, format_enum_initials aborts; a call that returns never
\* emits a wrapped-around value (a rewritten value is an i32 above the one
\* it replaces) and never emits a value equal to one already assigned.
C19_OverflowAbortsNeverWraps ==
    /\ enum_pc # "ready" =>
          ((\E i \in 1..Len(enum_input) : NeedsAboveMax(i)) => enum_pc = "aborted")
    /\ enum_pc = "done" =>
          \A k \in 1..Len(enum_input) :
             /\ OutputValues[k] # InputValues[k] =>
                   /\ IsSome(parse_i32(InputValues[k]))
                   /\ IsSome(parse_i32(OutputValues[k]))
                   /\ Unwrap(parse_i32(OutputValues[k])) > Unwrap(parse_i32(InputValues[k]))
                   /\ OutputValues[k] = i32_to_string(Unwrap(parse_i32(OutputValues[k])))
             /\ OutputValues[k] \notin {OutputValues[j] : j \in 1..(k - 1)}

\* The third candidate collides with the first, the value above it is the
\* second's, and the next one is past the largest i32: the call aborted.
C19_Witness ==
    /\ enum_pc = "aborted"
    /\ InputValues = <<"2147483646", "2147483647", "2147483646">>
    /\ NeedsAboveMax(3)

\* C29: the resolver is idempotent on values: format_enum_initials called on
\* the (name, value) pairs of one of its outputs returns the same values
\* unchanged, and an input whose value texts are pairwise distinct is
\* returned with every value unchanged.
C29_ResolverIdempotent ==
    /\ [][(enum_pc = "done" /\ enum_pc' # "done") =>
             /\ enum_pc' = "fed_back"
             /\ enum_input' = ReturnedPairs
             /\ OutputValues' = OutputValues]_vars
    /\ []((enum_pc # "ready"
             /\ \A j, k \in 1..Len(enum_input) :
                   j # k => InputValues[j] # InputValues[k]) =>
             /\ enum_pc # "aborted"
             /\ OutputValues = InputValues)

\* An output in which a value was rewritten was fed back and came out as it
\* went in.
C29_Witness ==
    /\ enum_pc = "fed_back"
    /\ InputValues = <<"5", "6", "7">>
    /\ OutputValues = <<"5", "6", "7">>


(***************************************************************************)
(* serialize and write_xml_file called on every bounded hand-built tree    *)
(***************************************************************************)
\* What a node carries besides its children: every combination of closed,
\* content and attributes.
NodeHeads ==
    {[closed |-> c, content |-> t, attributes |-> a] :
        c \in BOOLEAN, t \in {None, Some("txt")},
        a \in {EmptyAttributes, MapInsert(EmptyAttributes, "k", "1")}}

BuildNode(name, head, kids) ==
    [name |-> name, attributes |-> head.attributes, children |-> kids,
     closed |-> head.closed, content |-> head.content]

LeafTrees == {BuildNode("Leaf", h, <<>>) : h \in NodeHeads}

MidTrees ==
    {BuildNode("Mid", h, kids) : h \in NodeHeads, kids \in SeqsUpTo(LeafTrees, MaxChildren)}

\* Trees of depth 0, 1 and 2.
Trees ==
    LeafTrees \cup MidTrees \cup
    {BuildNode("Top", h, <<m>>) : h \in NodeHeads, m \in MidTrees}

NodeInit ==
    /\ tree \in Trees
    /\ ser_out = <<>>
    /\ node_pc = "built"
    /\ WriterIdle /\ EnumIdle /\ GenIdle /\ BuildIdle

CallSerialize ==
    /\ node_pc = "built"
    /\ ser_out' = serialize(tree, 0)
    /\ node_pc' = "serialized"
    /\ UNCHANGED <<tree, write_out, created, enum_vars, gen_vars, build_vars>>

\* The sink rejects no write, or every write of one kind.
FailingChoices == {{}} \cup {{k} : k \in EventKinds}

CallWriteXmlFile ==
    /\ node_pc = "serialized"
    /\ \E create_ok \in BOOLEAN, failing \in FailingChoices :
         /\ write_out' = write_xml_file(create_ok, tree, failing)
         /\ created' = create_ok
    /\ node_pc' = "written"
    /\ UNCHANGED <<tree, ser_out, enum_vars, gen_vars, build_vars>>

NodeNext == CallSerialize \/ CallWriteXmlFile

SpecNode == NodeInit /\ [][NodeNext]_vars


\* The lines of `out` that start an element at the given level: every line at
\* that indent except the closing tags.
ElementLines(out, level) ==
    LET Keep(l) == l.indent = indent(level) /\ l.form # "close"
    IN SelectSeq(out, Keep)

CloseLines(out, level) ==
    LET Keep(l) == l.indent = indent(level) /\ l.form = "close"
    IN SelectSeq(out, Keep)

OpenLines(out, level) ==
    LET Keep(l) == l.indent = indent(level) /\ l.form = "open"
    IN SelectSeq(out, Keep)

\* A node shows its children exactly when it is neither closed nor a leaf
\* with content.
ShownChildren(n) == IF n.closed \/ IsSome(n.content) THEN <<>> ELSE n.children

RECURSIVE FlattenShown(_, _)
FlattenShown(nodes, k) ==
    IF k > Len(nodes) THEN <<>>
    ELSE ShownChildren(nodes[k]) \o FlattenShown(nodes, k + 1)

\* The one rendering the priority closed > content > children gives a node.
RenderedAs(l, n) ==
    /\ l.name = n.name
    /\ IF n.closed
       THEN l.form = "selfclosing" /\ l.attrs = n.attributes /\ l.text = None
       ELSE IF IsSome(n.content)
       THEN l.form = "content" /\ l.text = n.content
       ELSE l.form = "open" /\ l.attrs = n.attributes /\ l.text = None

LevelRendered(out, level, nodes) ==
    /\ Len(ElementLines(out, level)) = Len(nodes)
    /\ \A k \in 1..Len(nodes) : RenderedAs(ElementLines(out, level)[k], nodes[k])
    /\ Len(CloseLines(out, level)) = Len(OpenLines(out, level))
    /\ \A k \in 1..Len(CloseLines(out, level)) :
          CloseLines(out, level)[k].name = OpenLines(out, level)[k].name

\* C9: serialize renders every node by the priority closed > content >
\* children: a closed node is one self-closing line, a non-closed node with
\* content is one line with one text payload whatever its children, and only
\* a non-closed node without content shows its children, each once, in
\* order, one level deeper, between its opening and its closing tag.
C9_SerializePriority ==
    node_pc # "built" =>
        LET level1 == ShownChildren(tree)
            level2 == FlattenShown(level1, 1)
        IN /\ LevelRendered(ser_out, 0, <<tree>>)
           /\ LevelRendered(ser_out, 1, level1)
           /\ LevelRendered(ser_out, 2, level2)
           /\ \A k \in 1..Len(ser_out) : ser_out[k].indent \in {indent(0), indent(1), indent(2)}
           /\ Len(ser_out) > 1 =>
                 ser_out[1].form = "open" /\ ser_out[Len(ser_out)].form = "close"
                 /\ ser_out[Len(ser_out)].indent = indent(0)

\* A shown child that has content and children: its children are not
\* rendered, while its siblings' level is.
C9_Witness ==
    /\ node_pc = "serialized"
    /\ tree.name = "Top" /\ ~tree.closed /\ ~IsSome(tree.content)
    /\ LET m == tree.children[1] IN
         /\ ~m.closed /\ IsSome(m.content) /\ Len(m.children) = MaxChildren
         /\ m.children[1].closed
    /\ Len(ser_out) = 3

\* C10: the line serialize emits for a non-closed node with content carries
\* the node's attributes in its opening tag.
C10_ContentKeepsAttributes ==
    node_pc # "built" =>
        (~tree.closed /\ IsSome(tree.content) =>
            /\ Len(ser_out) = 1
            /\ ser_out[1].text = tree.content
            /\ ser_out[1].attrs = tree.attributes)

\* C8: write_xml_file never returns Ok after a write that failed.
C8_FailedWriteIsError ==
    node_pc = "written" =>
        ((\E k \in 1..Len(write_out.writes) : write_out.writes[k].failed)
            => write_out.result = Err)

(***************************************************************************)
(* parse_project_into_nodetree, run on bounded lists of compilation units  *)
(***************************************************************************)
\* CompilationUnit: file.get_name(), global_vars, user_types, pous,
\* implementations.
CompilationUnit(file_name, global_vars, user_types, pous, implementations) ==
    [file_name |-> file_name, global_vars |-> global_vars, user_types |-> user_types,
     pous |-> pous, implementations |-> implementations]

Pou(name, kind, variable_blocks, return_type) ==
    [name |-> name, kind |-> kind, variable_blocks |-> variable_blocks,
     return_type |-> return_type]

\* Implementation with a location that grab_file_statement_from_span resolves.
Implementation(name, pou_type, linkage) ==
    [name |-> name, pou_type |-> pou_type, linkage |-> linkage,
     location |-> [span |-> "Range", file |-> [marker |-> "File", path |-> "main.st"],
                   range |-> [start |-> 0, end |-> Len(SourceFiles["main.st"])]]]

BlockKinds == {"Local", "Temp", "Input", "Output", "InOut", "External", "Global"}
PouNames == {"P", "Q"}

TypedVariable(name) == Variable(name, Some("INT"), TRUE, None, None)
UntypedVariable(name) == Variable(name, None, TRUE, None, None)
SynthesizedVariable(name) == Variable(name, Some("INT"), FALSE, None, None)

\* A block of n typed variables v0, v1, ...
BlockOf(kind, n) ==
    VariableBlock(kind, FALSE, FALSE,
                  [k \in 1..n |-> TypedVariable("v" \o usize_to_string(k - 1))])

\* The variable blocks a procedural unit of the runs may declare: one block
\* of each kind, an input block followed by an output block, and an input
\* block that starts with a variable the translator skips.
PouBlockLists ==
    {<<BlockOf(k, MaxVars)>> : k \in BlockKinds}
    \cup {<<BlockOf("Input", MaxVars), BlockOf("Output", 1)>>}
    \cup {<<VariableBlock("Input", FALSE, FALSE,
                          <<UntypedVariable("u"), TypedVariable("v1")>>)>>,
          <<VariableBlock("Input", FALSE, FALSE,
                          <<SynthesizedVariable("s"), TypedVariable("v1")>>)>>}

\* A unit with one procedural unit: P is a Function, Q a FunctionBlock.
PouUnit(name, blocks) ==
    LET kind == IF name = "P" THEN "Function" ELSE "FunctionBlock" IN
    CompilationUnit(Some("main.st"), <<>>, <<>>,
                    <<Pou(name, kind, blocks, Some(Some("INT")))>>,
                    <<Implementation(name, kind, "Internal")>>)

\* The unit of test_parse_project_into_nodetree: one global, one struct.
GlobalsAndStructUnit ==
    CompilationUnit(Some("myfile.st"),
        <<[VariableBlock("Global", FALSE, FALSE, <<TypedVariable("gCounter")>>)
              EXCEPT !.publish = "DoNotPublish"]>>,
        <<[has_span |-> TRUE,
           data_type |-> [tag |-> "StructType", name |-> Some("MyStruct"),
                          variables |-> <<Variable("field1", Some("DINT"), TRUE, None, None)>>]]>>,
        <<>>, <<>>)

\* A unit the compiler generated itself: its name does not end in ".st".
InternalUnit ==
    CompilationUnit(Some("internal.gen"), <<>>, <<>>,
                    <<Pou("P", "Function", <<BlockOf("Input", MaxVars)>>, None)>>,
                    <<Implementation("P", "Function", "Internal")>>)

\* Every block list under the name P, one of them under the name Q as well.
GenUnits ==
    {PouUnit("P", bl) : bl \in PouBlockLists}
    \cup {PouUnit("Q", <<BlockOf("Input", MaxVars)>>)}
    \cup {GlobalsAndStructUnit, InternalUnit}

\* The children of `node` without those called `name`.
WithoutChild(node, name) ==
    [node EXCEPT !.children = SelectSeq(node.children, LAMBDA c : c.name # name)]

\* The documents a caller may hand over: the template, and the template
\* with one of its anchors missing.
GenRoots ==
    {get_omron_template,
     WithoutChild(get_omron_template, INSTANCES),
     WithoutChild(get_omron_template, TYPES),
     [get_omron_template EXCEPT !.children[3] = WithoutChild(@, GLOBAL_NAMESPACE)]}

GenInit ==
    /\ units \in SeqsUpTo(GenUnits, MaxUnits)
    /\ params = [output_xml_omron |-> FALSE]
    /\ document \in GenRoots
    /\ tracker = {}
    /\ unit_idx = 0
    /\ gen_pc = "loop"
    /\ gen_result = "NoReturn"
    /\ order_log = <<>>
    /\ pass_log = <<>>
    /\ WriterIdle /\ EnumIdle /\ NodeIdle /\ BuildIdle

this_unit == units[unit_idx + 1]
this_unit_name == IF IsSome(this_unit.file_name) THEN Unwrap(this_unit.file_name) ELSE ""

\* Mutant: a sub-pass Err ends the run, as `?` would.
discard_result_propagating(result, next_pc) ==
    IF result = Panic THEN "panicked" ELSE IF result = Err THEN "done" ELSE next_pc

\* `let _ = generate_..(..)`: the Result is dropped and the run goes on;
\* only a panic ends it.
discard_result(result, next_pc) ==
    IF result = Panic THEN "panicked" ELSE next_pc

PassEntry(pass, result) == [unit |-> unit_idx, pass |-> pass, result |-> result]

\* The `continue` for a unit whose name does not end in ".st".
SkipUnit ==
    /\ gen_pc = "loop" /\ unit_idx < Len(units)
    /\ ~ends_with(to_lowercase(this_unit_name), ".st")
    /\ unit_idx' = unit_idx + 1
    /\ UNCHANGED <<units, params, document, tracker, gen_pc,
                   gen_result, order_log, pass_log>>
    /\ UNCHANGED <<build_vars, enum_vars, node_vars, write_out, created>>

Apply(pass, returned, next_pc) ==
    \E done \in {returned} :
    /\ document' = done.root
    /\ tracker' = done.preused_order
    /\ order_log' = order_log \o done.claims
    /\ pass_log' = Append(pass_log, PassEntry(pass, done.result))
    /\ gen_pc' = discard_result(done.result, next_pc)
    /\ UNCHANGED <<units, params, gen_result>>
    /\ UNCHANGED <<build_vars, enum_vars, node_vars, write_out, created>>

GenerateGlobals ==
    /\ gen_pc = "loop" /\ unit_idx < Len(units)
    /\ ends_with(to_lowercase(this_unit_name), ".st")
    /\ Apply("globals",
             generate_globals(params, this_unit, this_unit_name, OMRON_SCHEMA,
                              tracker, document),
             "types")
    /\ UNCHANGED unit_idx

GenerateCustomTypes ==
    /\ gen_pc = "types"
    /\ Apply("types",
             generate_custom_types(params, this_unit, tracker,
                                   document),
             "pous")
    /\ UNCHANGED unit_idx

GeneratePous ==
    /\ gen_pc = "pous"
    /\ Apply("pous",
             generate_pous(params, this_unit, OMRON_SCHEMA, tracker,
                           document),
             "loop")
    /\ unit_idx' = unit_idx + 1

\* The sink of a run takes every write or rejects every write.
GenFailingChoices == {{}, EventKinds}

\* write_xml_file(output_path, document)?; Ok(())
WriteDocument ==
    /\ gen_pc = "loop" /\ unit_idx >= Len(units)
    /\ \E create_ok \in BOOLEAN, failing \in GenFailingChoices :
         /\ write_out' = write_xml_file(create_ok, document, failing)
         /\ created' = create_ok
    /\ gen_result' = write_out'.result
    /\ gen_pc' = "done"
    /\ UNCHANGED <<units, params, document, tracker, unit_idx,
                   order_log, pass_log>>
    /\ UNCHANGED <<build_vars, enum_vars, node_vars>>

GenNext ==
    SkipUnit \/ GenerateGlobals \/ GenerateCustomTypes \/ GeneratePous \/ WriteDocument

SpecGen == GenInit /\ [][GenNext]_vars

\* ---- what the runs are checked against ----------------------------------
\* The (procedural-unit name, order) pair of a recorded order number.
ClaimKey(e) == <<e.pou, e.order>>

\* The pairs recorded before position k of the order log.
ClaimedBefore(k) == {ClaimKey(order_log[j]) : j \in 1..(k - 1)}

\* C3: over a whole run no two variables that got an orderWithinParamSet
\* under one procedural-unit name got the same order, every order written is
\* in the tracker as (name, order), and no step resets or shrinks the tracker.
C3_OrdersUniquePerUnitName ==
    /\ [](/\ \A i, j \in 1..Len(order_log) :
                i # j => ClaimKey(order_log[i]) # ClaimKey(order_log[j])
          /\ {ClaimKey(order_log[k]) : k \in 1..Len(order_log)} = tracker)
    /\ [][tracker \subseteq tracker']_vars

\* Two units declare the same procedural-unit name; the second one's
\* variables met the first one's claims and took other orders.
C3_Witness ==
    /\ gen_pc = "done" /\ Len(units) = 2
    /\ Len(units[1].pous) = 1 /\ Len(units[2].pous) = 1
    /\ units[1].pous[1].name = units[2].pous[1].name
    /\ Len(order_log) = 2 * MaxVars
    /\ \E k \in 1..Len(order_log) : order_log[k].order # order_log[k].index
    /\ \A k \in 1..Len(order_log) : order_log[k].pou = units[1].pous[1].name

\* C4: the order a variable gets is the smallest integer at or above its
\* positional index whose (name, integer) pair was not claimed before, and
\* that pair is what the tracker gains.
C4_SmallestFreeFromIndex ==
    /\ \A k \in 1..Len(order_log) :
          LET e == order_log[k] IN
          /\ e.order >= e.index
          /\ ClaimKey(e) \notin ClaimedBefore(k)
          /\ \A m \in e.index..(e.order - 1) : <<e.pou, m>> \in ClaimedBefore(k)
    /\ tracker = {ClaimKey(order_log[k]) : k \in 1..Len(order_log)}

ParameterKinds == {"Input", "Output", "InOut"}

UnitName(u) == IF IsSome(units[u].file_name) THEN Unwrap(units[u].file_name) ELSE ""
IsSourceUnit(u) == ends_with(to_lowercase(UnitName(u)), ".st")

\* The units of the run, by index, that declare a procedural unit `name`.
UnitsDeclaring(name) ==
    {u \in 1..Len(units) :
        IsSourceUnit(u) /\ \E k \in 1..Len(units[u].pous) : units[u].pous[k].name = name}

\* C5: the N input, output and in-out variables of a procedural unit whose
\* name has no earlier claim get the orders 0..N-1 in declaration order,
\* however they are split over the unit's blocks.
C5_FreshUnitCountsFromZero ==
    \A name \in PouNames :
        Cardinality(UnitsDeclaring(name)) <= 1 =>
            LET mine == SelectSeq(order_log,
                                  LAMBDA e : e.pou = name /\ e.kind \in ParameterKinds)
            IN \A k \in 1..Len(mine) : mine[k].order = k - 1

\* The (block, variable) positions of a procedural unit that the translator
\* turns into an element and that lie in an input, output or in-out block.
ParameterPositions(p) ==
    {bc \in (1..Len(p.variable_blocks)) \X (1..MaxVars) :
        /\ bc[2] <= Len(p.variable_blocks[bc[1]].variables)
        /\ p.variable_blocks[bc[1]].kind \in ParameterKinds
        /\ p.variable_blocks[bc[1]].variables[bc[2]].has_span
        /\ IsSome(p.variable_blocks[bc[1]].variables[bc[2]].type_name)}

\* C6: a variable gets an orderWithinParamSet and claims a tracker entry if
\* and only if it is declared in an input, output or in-out block: every
\* claim comes from such a block, and a translated unit has as many claims as
\* it has variables in such blocks.
C6_OnlyParameterBlocksClaim ==
    /\ \A k \in 1..Len(order_log) : order_log[k].kind \in ParameterKinds
    /\ (gen_pc = "done" /\ Len(units) = 1 /\ Len(pass_log) = 3
        /\ pass_log[3].result = Ok /\ Len(units[1].pous) = 1)
          => Len(order_log) = Cardinality(ParameterPositions(units[1].pous[1]))

\* The source units of the run, in their order.
SourceUnits == SelectSeq([u \in 1..Len(units) |-> u], IsSourceUnit)

\* What a sub-pass returns on this document: Err exactly when its anchor is
\* missing (no run of these units panics).
AnchorMissing(pass) ==
    IF pass = "globals" THEN FindChild(document, INSTANCES) = 0
    ELSE \/ FindChild(document, TYPES) = 0
         \/ FindChild(document.children[FindChild(document, TYPES)], GLOBAL_NAMESPACE) = 0

PassNames == <<"globals", "types", "pous">>

\* C7: a sub-pass that fails on a missing anchor is the only thing given up:
\* at the end of the run every source unit has had its three sub-passes, in
\* order, each failing exactly when its own anchor is missing; the document
\* has been handed to the writer, and the run's result is an error only when
\* the output file could not be created.
C7_MissingAnchorAbandonsOnlyItsPass ==
    gen_pc = "done" =>
        /\ Len(pass_log) = 3 * Len(SourceUnits)
        /\ \A k \in 1..Len(SourceUnits) : \A p \in 1..3 :
              LET entry == pass_log[3 * (k - 1) + p] IN
              /\ entry.unit = SourceUnits[k] - 1
              /\ entry.pass = PassNames[p]
              /\ entry.result = IF AnchorMissing(PassNames[p]) THEN Err ELSE Ok
        /\ gen_result = IF created THEN Ok ELSE Err
        /\ created => Len(write_out.writes) > 0

\* Two source units on a document without its Instances anchor: both
\* globals passes failed, both procedural-unit passes ran and claimed
\* orders, and the run returned Ok.
C7_Witness ==
    /\ gen_pc = "done" /\ Len(units) = 2 /\ Len(SourceUnits) = 2
    /\ AnchorMissing("globals") /\ ~AnchorMissing("pous")
    /\ pass_log[1].result = Err /\ pass_log[4].result = Err
    /\ pass_log[3].result = Ok /\ pass_log[6].result = Ok
    /\ Len(order_log) > 0
    /\ created /\ gen_result = Ok

\* ---- the order of the writer's events -----------------------------------
\* An event as the document shows it: kind, element name, attributes, text.
Shown(w) == [kind |-> w.kind, name |-> w.name, attrs |-> w.attrs, text |-> w.text]

\* The events a depth-first pre-order walk owes a node: its start tag with
\* its attributes, its text only when it has no children, its children in
\* document order, its end tag.
RECURSIVE PreOrder(_)
RECURSIVE PreOrderAll(_, _)
PreOrderAll(nodes, k) ==
    IF k > Len(nodes) THEN <<>> ELSE PreOrder(nodes[k]) \o PreOrderAll(nodes, k + 1)

PreOrder(n) ==
    <<[kind |-> "StartElement", name |-> n.name, attrs |-> n.attributes, text |-> None]>>
    \o (IF Len(n.children) = 0 /\ IsSome(n.content)
        THEN <<[kind |-> "CData", name |-> n.name, attrs |-> EmptyAttributes,
                text |-> n.content]>>
        ELSE <<>>)
    \o PreOrderAll(n.children, 1)
    \o <<[kind |-> "EndElement", name |-> n.name, attrs |-> EmptyAttributes, text |-> None]>>

\* C11: write_xml_file walks the tree depth-first in pre-order: after the
\* document declaration, every node is a start tag with all its attributes,
\* its text only if it has no children, its children in document order, and
\* its end tag; a node with content and children loses the content.
C11_WriterPreOrder ==
    (node_pc = "written" /\ created) =>
        /\ Len(write_out.writes) = 1 + Len(PreOrder(tree))
        /\ write_out.writes[1].kind = "StartDocument"
        /\ \A k \in 1..Len(PreOrder(tree)) :
              Shown(write_out.writes[k + 1]) = PreOrder(tree)[k]
        /\ \A k \in 1..Len(write_out.writes) :
              write_out.writes[k].kind = "CData" =>
                 /\ write_out.writes[k - 1].kind = "StartElement"
                 /\ write_out.writes[k + 1].kind = "EndElement"

\* A node with content and two children, the first with content of its own:
\* the children's texts are written, the parent's is not.
C11_Witness ==
    /\ node_pc = "written" /\ created
    /\ tree.name = "Mid" /\ IsSome(tree.content) /\ Len(tree.children) = 2
    /\ IsSome(tree.children[1].content) /\ ~IsSome(tree.children[2].content)
    /\ tree.children[1].attributes # EmptyAttributes
    /\ Len(write_out.writes) = 8
    /\ \A k \in 1..Len(write_out.writes) : ~write_out.writes[k].failed

(***************************************************************************)
(* A Node built call by call, and attached to a parent                     *)
(***************************************************************************)
MaxCalls == 4           \* most builder calls of one run

AttributeKeys == {"k", "j"}
AttributeValues == {"1", "2"}

BuildInit ==
    /\ source = NewNode("TypeName")
    /\ parent = NewNode("Root")
    /\ attr_calls = <<>>
    /\ snapshots = <<>>
    /\ build_steps = 0
    /\ EnumIdle /\ NodeIdle /\ WriterIdle /\ GenIdle

\* A builder call on c that leaves the parent alone.
OnSource(changed) ==
    /\ build_steps < MaxCalls
    /\ source' = changed
    /\ build_steps' = build_steps + 1
    /\ UNCHANGED <<parent, snapshots, enum_vars, node_vars, write_out, created, gen_vars>>

\* c = c.attribute(key, value)
CallAttribute ==
    \E key \in AttributeKeys, value \in AttributeValues :
        /\ OnSource(attribute(source, key, value))
        /\ attr_calls' = Append(attr_calls, <<key, value>>)

\* c = c.content(..)
CallContent == OnSource(content(source, "INT")) /\ UNCHANGED attr_calls

\* c = c.close()
CallClose == OnSource(close(source)) /\ UNCHANGED attr_calls

\* c = c.child(&leaf)
CallChildOnSource ==
    /\ OnSource(child(source, inner(Builder("g", NewNode("Leaf")))))
    /\ UNCHANGED attr_calls

\* parent = parent.child(&c), or parent.child_borrowed(&c)
CallChild ==
    /\ build_steps < MaxCalls
    /\ parent' = child(parent, inner(Builder("c", source)))
    /\ snapshots' = Append(snapshots, source)
    /\ build_steps' = build_steps + 1
    /\ UNCHANGED <<source, attr_calls, enum_vars, node_vars, write_out, created, gen_vars>>

\* parent = parent.children(vec![Box::new(c)])
CallChildren ==
    /\ build_steps < MaxCalls
    /\ parent' = children(parent, <<inner(Builder("c", source))>>)
    /\ snapshots' = Append(snapshots, source)
    /\ build_steps' = build_steps + 1
    /\ UNCHANGED <<source, attr_calls, enum_vars, node_vars, write_out, created, gen_vars>>

BuildNext ==
    \/ CallAttribute \/ CallContent \/ CallClose \/ CallChildOnSource
    \/ CallChild \/ CallChildren

SpecBuild == BuildInit /\ [][BuildNext]_vars

\* What a reader of parent.children finds at an entry: the Node held there,
\* or the present state of c where the entry shares c.
Deref(entry) == IF "ref" \in DOMAIN entry THEN source ELSE entry

\* C12: a child is attached as a copy of its state at the call: whatever is
\* done to c afterwards (attributes, children, content, closed), every entry
\* of the parent's children still equals c as it was when pushed, and the
\* push itself leaves c as it was.
C12_ChildIsValueCopy ==
    /\ [](/\ Len(parent.children) = Len(snapshots)
          /\ \A k \in 1..Len(snapshots) : Deref(parent.children[k]) = snapshots[k])
    /\ [][Len(snapshots') > Len(snapshots) => source' = source]_vars

\* c was attached and then given an attribute, content and the closed flag.
C12_Witness ==
    /\ Len(snapshots) = 1 /\ Len(parent.children) = 1
    /\ source.attributes # snapshots[1].attributes
    /\ source.content # snapshots[1].content
    /\ source.closed # snapshots[1].closed

\* The position of the last attribute call for `key`.
LastCall(key) ==
    CHOOSE i \in 1..Len(attr_calls) :
        /\ attr_calls[i][1] = key
        /\ \A j \in (i + 1)..Len(attr_calls) : attr_calls[j][1] # key

\* C13: after any sequence of attribute calls the node holds one entry per
\* key called, with the value of the last call for that key; an attribute
\* call leaves name, children, content, closed and every other attribute
\* as they were.
C13_LastAttributeWins ==
    /\ [](/\ DOMAIN source.attributes = {attr_calls[i][1] : i \in 1..Len(attr_calls)}
          /\ \A key \in DOMAIN source.attributes :
                source.attributes[key] = attr_calls[LastCall(key)][2])
    /\ [][Len(attr_calls') > Len(attr_calls) =>
            /\ source'.name = source.name
            /\ source'.children = source.children
            /\ source'.content = source.content
            /\ source'.closed = source.closed
            /\ \A key \in AttributeKeys \ {attr_calls'[Len(attr_calls')][1]} :
                  /\ (key \in DOMAIN source'.attributes) = (key \in DOMAIN source.attributes)
                  /\ key \in DOMAIN source.attributes =>
                        source'.attributes[key] = source.attributes[key]]_vars

\* One key set twice to different values, another key set once, on a node
\* that already has content.
C13_Witness ==
    /\ Len(attr_calls) = 3
    /\ attr_calls[1][1] = attr_calls[3][1] /\ attr_calls[1][2] # attr_calls[3][2]
    /\ attr_calls[2][1] # attr_calls[1][1]
    /\ IsSome(source.content)
    /\ source.attributes[attr_calls[1][1]] = attr_calls[3][2]

(***************************************************************************)
(* The sub-passes on one unit at a time, over a wider range of units       *)
(***************************************************************************)
MaxBlocks == 2          \* most global variable blocks of one unit

FlagTag(constant, retain) ==
    (IF constant THEN "C" ELSE "N") \o (IF retain THEN "R" ELSE "N")

\* The variables a global block may declare, named after the block's flags:
\* one typed variable; an untyped one before a typed one; a compiler-made
\* one before a typed one.
GlobalVariableLists(tag) ==
    {<<TypedVariable("g" \o tag \o "0")>>,
     <<UntypedVariable("u" \o tag), TypedVariable("g" \o tag \o "1")>>,
     <<SynthesizedVariable("s" \o tag), TypedVariable("g" \o tag \o "2")>>}

\* Blocks of global_vars: global blocks with every pair of flags, a block
\* that is not of the global kind, and a global block whose variable has a
\* literal initializer and a literal address.
GlobalBlocks ==
    UNION {{VariableBlock("Global", c, r, vs) : vs \in GlobalVariableLists(FlagTag(c, r))} :
              c \in BOOLEAN, r \in BOOLEAN}
    \cup {VariableBlock("Local", FALSE, TRUE, <<TypedVariable("loc")>>)}
    \cup {VariableBlock("Global", FALSE, FALSE,
                        <<Variable("gInit", Some("INT"), TRUE,
                                   Some(Literal("5")), Some(Literal("%MW1")))>>)}

GlobalsUnits ==
    {CompilationUnit(Some("myfile.st"), blocks, <<>>, <<>>, <<>>) :
        blocks \in SeqsUpTo(GlobalBlocks, MaxBlocks)}


\* ---- what a globals pass leaves under the Instances anchor --------------
InstancesOf(doc) == doc.children[FindChild(doc, INSTANCES)]

\* The flags a GlobalVars container carries.
ContainerFlags(node) == {k \in DOMAIN node.attributes : node.attributes[k] = "true"}

BlockFlags(block) ==
    (IF block.constant THEN {"constant"} ELSE {})
    \cup (IF block.retain THEN {"retain"} ELSE {})

ElementNames(nodes) == [k \in 1..Len(nodes) |-> nodes[k].attributes["name"]]

\* The names of the variables of a block that the globals pass emits.
EmittedOf(block) ==
    LET kept == SelectSeq(block.variables,
                          LAMBDA v : v.has_span /\ IsSome(v.type_name)
                                     /\ block.kind = "Global")
    IN [k \in 1..Len(kept) |-> kept[k].name]

\* The emitted names of the blocks that carry `flags`, from block k on.
RECURSIVE EmittedUnder(_, _, _)
EmittedUnder(blocks, k, flags) ==
    IF k > Len(blocks) THEN <<>>
    ELSE (IF BlockFlags(blocks[k]) = flags THEN EmittedOf(blocks[k]) ELSE <<>>)
         \o EmittedUnder(blocks, k + 1, flags)

\* A step that is a globals pass which returned Ok.
GlobalsPassOk ==
    /\ gen_pc = "loop" /\ gen_pc' = "types"
    /\ pass_log'[Len(pass_log')].result = Ok

\* C14: a successful globals pass appends to the Instances anchor one
\* Configuration "<unit>_Configuration" holding one Resource
\* "<unit>_Resource" holding four GlobalVars containers, one per pair of
\* flags, empty or not; each holds the emitted variables of the blocks with
\* its flags, and no other.
C14_GlobalsPassShape ==
    [][GlobalsPassOk =>
        LET before == InstancesOf(document).children
            after == InstancesOf(document').children
            configuration_node == after[Len(after)]
            resource_node == configuration_node.children[1]
        IN /\ Len(after) = Len(before) + 1
           /\ SubSeq(after, 1, Len(before)) = before
           /\ configuration_node.name = "Configuration"
           /\ configuration_node.attributes["name"] = this_unit_name \o "_Configuration"
           /\ Len(configuration_node.children) = 1
           /\ resource_node.name = "Resource"
           /\ resource_node.attributes["name"] = this_unit_name \o "_Resource"
           /\ Len(resource_node.children) = 4
           /\ \A k \in 1..4 : resource_node.children[k].name = "GlobalVars"
           /\ {ContainerFlags(resource_node.children[k]) : k \in 1..4}
                 = SUBSET {"constant", "retain"}
           /\ \A k \in 1..4 :
                 ElementNames(resource_node.children[k].children)
                    = EmittedUnder(this_unit.global_vars, 1,
                                   ContainerFlags(resource_node.children[k]))
    ]_vars

\* After the globals pass of a unit with a constant block and a retain
\* block: two containers hold a variable each, the other two are empty.
C14_Witness ==
    /\ gen_pc = "types" /\ pass_log[1].result = Ok
    /\ Len(units[1].global_vars) = 2
    /\ units[1].global_vars[1].constant /\ ~units[1].global_vars[1].retain
    /\ units[1].global_vars[2].retain /\ ~units[1].global_vars[2].constant
    /\ LET resource_node == InstancesOf(document).children[1].children[1] IN
         /\ Len(resource_node.children[1].children) = 0
         /\ Len(resource_node.children[2].children) = 1
         /\ Len(resource_node.children[3].children) = 1
         /\ Len(resource_node.children[4].children) = 0

\* The names of the variables found in the four containers of a Resource.
ContainedNames(resource_node) ==
    UNION {{resource_node.children[k].children[j].attributes["name"] :
               j \in 1..Len(resource_node.children[k].children)} : k \in 1..4}

\* C15: the globals pass emits a variable if and only if it has a type
\* name, a source location and a block of the global kind; a variable that
\* lacks one of them is in no container, while the variables around it and
\* the blocks after it are emitted as usual.
C15_GlobalEmittedIffEligible ==
    [][GlobalsPassOk =>
        LET after == InstancesOf(document').children
            resource_node == after[Len(after)].children[1]
        IN \A a \in 1..Len(this_unit.global_vars) :
              LET current_global == this_unit.global_vars[a] IN
              \A b \in 1..Len(current_global.variables) :
                 LET current_variable == current_global.variables[b] IN
                 (current_variable.name \in ContainedNames(resource_node))
                    <=> (/\ IsSome(current_variable.type_name)
                         /\ current_variable.has_span
                         /\ current_global.kind = "Global")
    ]_vars

\* A block that starts with an untyped variable, then a block that is not
\* global: the typed sibling is the only variable emitted.
C15_Witness ==
    /\ gen_pc = "types" /\ pass_log[1].result = Ok
    /\ Len(units[1].global_vars) = 2
    /\ Len(units[1].global_vars[1].variables) = 2
    /\ ~IsSome(units[1].global_vars[1].variables[1].type_name)
    /\ units[1].global_vars[2].kind = "Local"
    /\ ContainedNames(InstancesOf(document).children[1].children[1])
          = {units[1].global_vars[1].variables[2].name}

\* ---- user types ---------------------------------------------------------
MaxTypes == 2           \* most user types of one unit

\* UserTypeDeclaration: location.span # None, and the data type.
UserType(has_span, data_type) == [has_span |-> has_span, data_type |-> data_type]

StructType(name, variables) ==
    [tag |-> "StructType", name |-> name, variables |-> variables]

Field(name, type_name) == Variable(name, type_name, TRUE, None, None)

\* The field lists of a struct: none, untyped only, typed only, and typed
\* fields around untyped ones.
StructFieldLists ==
    {<<>>,
     <<Field("u1", None)>>,
     <<Field("f1", Some("DINT"))>>,
     <<Field("u1", None), Field("f1", Some("DINT")), Field("u2", None),
       Field("f2", Some("INT"))>>}

\* Structs the pass reads: named ones with a location, an anonymous one, and
\* one the compiler made itself.
StructTypes ==
    {UserType(TRUE, StructType(Some("MyStruct"), fs)) : fs \in StructFieldLists}
    \cup {UserType(TRUE, StructType(None, <<Field("f1", Some("DINT"))>>)),
          UserType(FALSE, StructType(Some("Made"), <<Field("f1", Some("DINT"))>>))}

\* A data type that is neither a struct nor an enum.
OtherType == UserType(TRUE, [tag |-> "ArrayType", name |-> Some("Arr")])

\* `name := text` as the parser hands it over: an Assignment of a Literal to
\* a Member reference of an Identifier.
EnumAssignment(name, text) ==
    [stmt |-> "Assignment",
     left |-> [stmt |-> "ReferenceExpr", access |-> "Member",
               member |-> [stmt |-> "Identifier", name |-> name]],
     right |-> [stmt |-> "Literal", text |-> text]]

ExpressionList(nodes) == [stmt |-> "ExpressionList", nodes |-> nodes]

EnumType(name, numeric_type, elements) ==
    [tag |-> "EnumType", name |-> name, numeric_type |-> numeric_type,
     elements |-> elements]

\* The element lists of an enum: three variants of which two collide, no
\* variant, one bare Assignment, a colliding variant at the largest i32, and
\* a list holding something that is no Assignment.
EnumElementChoices ==
    {ExpressionList(<<EnumAssignment("RED", "0"), EnumAssignment("GREEN", "1"),
                      EnumAssignment("BLUE", "1")>>),
     ExpressionList(<<>>),
     EnumAssignment("ON", "1"),
     ExpressionList(<<EnumAssignment("TOP", "2147483647"),
                      EnumAssignment("OVER", "2147483647")>>),
     ExpressionList(<<[stmt |-> "Literal", text |-> "7"]>>)}

EnumTypes ==
    {UserType(TRUE, EnumType(Some("Color"), "INT", el)) : el \in EnumElementChoices}
    \cup {UserType(TRUE, EnumType(None, "INT", EnumAssignment("ON", "1")))}

UserTypes == StructTypes \cup EnumTypes \cup {OtherType}

TypesUnits ==
    {CompilationUnit(Some("myfile.st"), <<>>, types, <<>>, <<>>) :
        types \in SeqsUpTo(UserTypes, MaxTypes)}

\* ---- procedural units ---------------------------------------------------
MaxImpls == 2           \* most implementations of one unit

\* An Implementation with the given location.
ImplementationAt(name, pou_type, linkage, location) ==
    [Implementation(name, pou_type, linkage) EXCEPT !.location = location]

\* The implementations called `name` a unit may hold: one of every kind
\* where it should be, an external one, and one at each location the pass
\* cannot take a text from: end before start, a marker that is no file, a
\* span that is no range, a file that is not there, a range past the end
\* of the file.
ImplChoices(name) ==
    LET here == Implementation(name, "Function", "Internal").location IN
    {Implementation(name, k, "Internal") :
        k \in {"Program", "Function", "FunctionBlock", "Action", "Class"}}
    \cup {Implementation(name, "Function", "External")}
    \cup {ImplementationAt(name, "Function", "Internal", location) :
            location \in {[here EXCEPT !.range = [start |-> 3, end |-> 1]],
                          [here EXCEPT !.file = [marker |-> "Internal", path |-> "<internal>"]],
                          [here EXCEPT !.span = "None"],
                          [here EXCEPT !.file.path = "gone.st",
                                       !.range = [start |-> 3, end |-> 1]],
                          [here EXCEPT !.range.end = here.range.end + 1]}}

\* Units of procedural units only: a first implementation P of any choice,
\* then function blocks Q; the declared POUs are P and Q, or Q alone, with
\* every shape of return type.
PousUnits ==
    {CompilationUnit(Some("main.st"), <<>>, <<>>, pous,
                     <<first>> \o [k \in 1..n |->
                                      Implementation("Q", "FunctionBlock", "Internal")]) :
        first \in ImplChoices("P"), n \in 0..(MaxImpls - 1),
        pous \in UNION {{<<Pou("P", "Function", <<BlockOf("Input", 1)>>, return_type),
                           Pou("Q", "FunctionBlock", <<BlockOf("Input", 1)>>, return_type)>>,
                         <<Pou("Q", "FunctionBlock", <<BlockOf("Input", 1)>>, return_type)>>} :
                        return_type \in {None, Some(None), Some(Some("INT"))}}}

UnitChoices == GlobalsUnits \cup TypesUnits \cup PousUnits \cup {InternalUnit}

\* The runs of a unit on its own, and the runs in which a unit that is not
\* the user's source (named internal.gen, main.st.bak, or not named at all)
\* or a unit named MAIN.ST comes before a source unit.
UnitRuns ==
    LET upper == [GlobalsAndStructUnit EXCEPT !.file_name = Some("MAIN.ST")]
        first == {[InternalUnit EXCEPT !.file_name = n] :
                     n \in {Some("internal.gen"), Some("main.st.bak"), None}}
                 \cup {upper}
    IN {<<u>> : u \in UnitChoices \cup first}
       \cup {<<f, u>> : f \in first,
                        u \in {GlobalsAndStructUnit, PouUnit("Q", <<BlockOf("Input", 1)>>)}}

UnitInit ==
    /\ units \in UnitRuns
    /\ params = [output_xml_omron |-> FALSE]
    /\ document \in GenRoots
    /\ tracker = {}
    /\ unit_idx = 0
    /\ gen_pc = "loop"
    /\ gen_result = "NoReturn"
    /\ order_log = <<>>
    /\ pass_log = <<>>
    /\ WriterIdle /\ EnumIdle /\ NodeIdle /\ BuildIdle

SpecUnit == UnitInit /\ [][GenNext]_vars

\* ---- what a custom-types pass leaves in the type namespace ---------------
NamespaceOf(doc) ==
    LET types_root == doc.children[FindChild(doc, TYPES)]
    IN types_root.children[FindChild(types_root, GLOBAL_NAMESPACE)]

\* A step that is a custom-types pass which returned Ok.
TypesPassOk ==
    /\ gen_pc = "types" /\ gen_pc' = "pous"
    /\ pass_log'[Len(pass_log')].result = Ok

\* The elements the step added to the type namespace.
AddedToNamespace ==
    SubSeq(NamespaceOf(document').children,
           Len(NamespaceOf(document).children) + 1,
           Len(NamespaceOf(document').children))

IsStructDecl(decl) ==
    /\ decl.name = "DataTypeDecl" /\ Len(decl.children) = 1
    /\ decl.children[1].name = "UserDefinedTypeSpec"
    /\ decl.children[1].attributes["xsi:type"] = "StructTypeSpec"

\* The fields of a struct that have a type name, in declaration order.
ResolvableFields(data_type) ==
    SelectSeq(data_type.variables, LAMBDA v : IsSome(v.type_name))

\* The Members of decl are the resolvable fields of data_type, in order.
MembersMatch(decl, data_type) ==
    LET members == decl.children[1].children
        fields == ResolvableFields(data_type)
    IN /\ Len(members) = Len(fields)
       /\ \A k \in 1..Len(fields) :
             /\ members[k].name = "Member"
             /\ members[k].attributes["name"] = fields[k].name
             /\ members[k].children[1].children[1].content = fields[k].type_name

\* The struct declarations of `types` that owe an element, given which
\* structs the pass looks at.
StructsOwing(types, Looked(_)) ==
    SelectSeq(types, LAMBDA t : /\ t.data_type.tag = "StructType"
                                /\ Looked(t)
                                /\ Len(ResolvableFields(t.data_type)) > 0)

StructDeclsMatch(owing) ==
    LET decls == SelectSeq(AddedToNamespace, IsStructDecl) IN
    /\ Len(decls) = Len(owing)
    /\ \A k \in 1..Len(owing) : MembersMatch(decls[k], owing[k].data_type)

\* C16 as stated: a struct without a resolvable field adds no DataTypeDecl,
\* and every struct with a resolvable field adds exactly one, whose Members
\* are its resolvable fields in declaration order.
C16_EveryStructWithFieldsDeclared ==
    [][TypesPassOk =>
        StructDeclsMatch(StructsOwing(this_unit.user_types, LAMBDA t : TRUE))]_vars

\* C16, amended: the same for the structs that have a name and a source
\* location; a struct without a name or without a location adds nothing,
\* whatever its fields are.
C16_NamedStructWithFieldsDeclared ==
    [][TypesPassOk =>
        /\ StructDeclsMatch(StructsOwing(this_unit.user_types,
                                LAMBDA t : t.has_span /\ IsSome(t.data_type.name)))
        /\ \A k \in 1..Len(SelectSeq(AddedToNamespace, IsStructDecl)) :
              SelectSeq(AddedToNamespace, IsStructDecl)[k].attributes["name"]
                 = Unwrap(StructsOwing(this_unit.user_types,
                              LAMBDA t : t.has_span /\ IsSome(t.data_type.name))[k]
                          .data_type.name)
    ]_vars

\* A struct of untyped fields only, then a struct with two typed fields
\* among untyped ones: one DataTypeDecl with two Members.
C16_Witness ==
    /\ gen_pc = "pous" /\ pass_log[2].result = Ok
    /\ Len(units[1].user_types) = 2
    /\ units[1].user_types[1].data_type.tag = "StructType"
    /\ units[1].user_types[1].data_type.variables = <<Field("u1", None)>>
    /\ units[1].user_types[2].data_type.tag = "StructType"
    /\ Len(units[1].user_types[2].data_type.variables) = 4
    /\ Len(NamespaceOf(document).children) = 1
    /\ Len(NamespaceOf(document).children[1].children[1].children) = 2

\* ---- enum declarations ---------------------------------------------------
IsEnumDecl(decl) ==
    /\ decl.name = "DataTypeDecl" /\ Len(decl.children) = 1
    /\ decl.children[1].name = "UserDefinedTypeSpec"
    /\ decl.children[1].attributes["xsi:type"] = "EnumTypeWithNamedValueSpec"

\* The variant names of an enum's elements, as declared.
DeclaredVariants(elements) ==
    IF elements.stmt = "ExpressionList"
    THEN [k \in 1..Len(elements.nodes) |-> elements.nodes[k].left.member.name]
    ELSE <<elements.left.member.name>>

\* The enums of `types` the pass declares: named, with a source location.
EnumsOwing(types) ==
    SelectSeq(types, LAMBDA t : /\ t.data_type.tag = "EnumType"
                                /\ t.has_span /\ IsSome(t.data_type.name))

\* The type-spec of decl holds one Enumerator per declared variant, in the
\* declared order, and then one BaseType, which is its last child.
EnumeratorsThenBaseType(decl, data_type) ==
    LET kids == decl.children[1].children
        declared == DeclaredVariants(data_type.elements)
    IN /\ Len(kids) = Len(declared) + 1
       /\ \A k \in 1..Len(declared) :
             /\ kids[k].name = "Enumerator"
             /\ kids[k].attributes["name"] = declared[k]
       /\ kids[Len(kids)].name = "BaseType"
       /\ kids[Len(kids)].content = Some(data_type.numeric_type)

\* C17: in every enum DataTypeDecl a custom-types pass emits, the children
\* of the type-spec node are the Enumerators of the declared variants in
\* input order followed by exactly one BaseType, which is the last child; no
\* Enumerator follows the BaseType.
C17_EnumeratorsThenOneBaseType ==
    [][TypesPassOk =>
        LET decls == SelectSeq(AddedToNamespace, IsEnumDecl)
            owing == EnumsOwing(this_unit.user_types)
        IN /\ Len(decls) = Len(owing)
           /\ \A k \in 1..Len(decls) :
                 EnumeratorsThenBaseType(decls[k], owing[k].data_type)
    ]_vars

\* The three-variant enum was declared: RED, GREEN, BLUE and then BaseType.
C17_Witness ==
    /\ gen_pc = "pous" /\ pass_log[2].result = Ok
    /\ Len(units[1].user_types) = 1
    /\ units[1].user_types[1].data_type.tag = "EnumType"
    /\ units[1].user_types[1].data_type.elements.stmt = "ExpressionList"
    /\ Len(units[1].user_types[1].data_type.elements.nodes) = 3
    /\ Len(NamespaceOf(document).children) = 1
    /\ Len(NamespaceOf(document).children[1].children[1].children) = 4
    /\ NamespaceOf(document).children[1].children[1].children[4].name = "BaseType"

\* ---- what a procedural-units pass leaves in the type namespace ------------
\* A step that is a procedural-units pass.
PousPass == gen_pc = "pous" /\ gen_pc' # "pous"

PousPassOk == PousPass /\ pass_log'[Len(pass_log')].result = Ok

\* The type name a ResultType shows for the POU called `name`: the name of
\* the declared return type, BOOL when none is declared or it has no name.
ExpectedResultType(unit, name) ==
    LET declared == Unwrap(FindPou(unit, name)).return_type IN
    IF IsSome(declared) /\ IsSome(Unwrap(declared)) THEN Unwrap(Unwrap(declared))
    ELSE "BOOL"

\* elem has a ResultType child holding one TypeName of the given text.
CarriesResultType(elem, type_name) ==
    \E k \in 1..Len(elem.children) :
        /\ elem.children[k].name = "ResultType"
        /\ Len(elem.children[k].children) = 1
        /\ elem.children[k].children[1].name = "TypeName"
        /\ elem.children[k].children[1].content = Some(type_name)

\* The elements of the given kinds among those the step added.
AddedOfKind(kinds) == SelectSeq(AddedToNamespace, LAMBDA e : e.name \in kinds)

\* C18: every Function element and every FunctionBlock element a
\* procedural-units pass emits carries a ResultType child whose TypeName is
\* the declared return type's name, or BOOL when no return type is declared
\* or its name cannot be resolved.
C18_FunctionsAndBlocksCarryResultType ==
    [][PousPassOk =>
        \A k \in 1..Len(AddedOfKind({"Function", "FunctionBlock"})) :
            LET elem == AddedOfKind({"Function", "FunctionBlock"})[k] IN
            CarriesResultType(elem, ExpectedResultType(this_unit, elem.attributes["name"]))
    ]_vars

\* The part of C18 that the Function elements meet.
FunctionsCarryResultType ==
    [][PousPassOk =>
        \A k \in 1..Len(AddedOfKind({"Function"})) :
            LET elem == AddedOfKind({"Function"})[k] IN
            CarriesResultType(elem, ExpectedResultType(this_unit, elem.attributes["name"]))
    ]_vars

\* ---- implementations the procedural-units pass leaves out ----------------
UnsupportedKind(impl) == impl.pou_type \notin {"Program", "Function", "FunctionBlock"}

\* The source range of impl cannot be resolved: no range, no file, or an
\* end before the start.
UnresolvableRange(impl) ==
    \/ impl.location.span # "Range"
    \/ impl.location.file.marker # "File"
    \/ impl.location.range.end < impl.location.range.start

\* An implementation the pass is to leave out.
LeftOut(impl) ==
    UnsupportedKind(impl) \/ impl.linkage = "External" \/ UnresolvableRange(impl)

\* An implementation whose data the pass cannot get at: no POU of its name,
\* or a file that cannot be read over the range.
Unreadable(unit, impl) ==
    \/ ~IsSome(FindPou(unit, impl.name))
    \/ impl.location.file.path \notin DOMAIN SourceFiles
    \/ impl.location.range.end > Len(SourceFiles[impl.location.file.path])

NamesOf(elems) == [k \in 1..Len(elems) |-> elems[k].attributes["name"]]

\* A procedural-units step treats the implementations for which Skipped
\* holds as left out: none of them gets an element or an order number, the
\* step aborts only over an implementation that is not left out, and when
\* it does not abort every other implementation got its element, in order.
LeavesOut(Skipped(_)) ==
    LET impls == this_unit.implementations
        skipped == {impls[k].name : k \in {j \in 1..Len(impls) : Skipped(impls[j])}}
        result == pass_log'[Len(pass_log')].result
    IN /\ \A k \in 1..Len(AddedToNamespace) :
             AddedToNamespace[k].attributes["name"] \notin skipped
       /\ \A k \in (Len(order_log) + 1)..Len(order_log') :
             order_log'[k].pou \notin skipped
       /\ \A pair \in tracker' \ tracker : pair[1] \notin skipped
       /\ result = Panic =>
             \E k \in 1..Len(impls) :
                ~Skipped(impls[k]) /\ Unreadable(this_unit, impls[k])
       /\ result = Ok =>
             NamesOf(AddedToNamespace)
                = NamesOf(SelectSeq([k \in 1..Len(impls) |->
                                        [attributes |-> [name |-> impls[k].name],
                                         left_out |-> Skipped(impls[k])]],
                                    LAMBDA e : ~e.left_out))

\* C20: in the procedural-units pass an implementation whose kind is not
\* Program, Function or FunctionBlock, or whose linkage is external, or
\* whose source range cannot be resolved (negative length, non-file
\* location, non-range location) adds no element to the type namespace,
\* claims no order number, and does not abort generation: the following
\* implementations are still processed.
C20_LeftOutImplementationsNeverAbort ==
    [][PousPass /\ pass_log'[Len(pass_log')].result # Err => LeavesOut(LeftOut)]_vars

\* The skip tests are reached: a POU of the implementation's name exists,
\* and the file of a range that ends before its start can be opened.
ReachesSkipTests(unit, impl) ==
    /\ IsSome(FindPou(unit, impl.name))
    /\ (~UnsupportedKind(impl) /\ impl.linkage # "External"
            /\ impl.location.span = "Range" /\ impl.location.file.marker = "File")
          => impl.location.file.path \in DOMAIN SourceFiles

\* What the pass does meet: the implementations to leave out that reach the
\* skip tests add nothing, claim nothing and do not abort the pass.
LeftOutAfterLookupNeverAbort ==
    [][PousPass /\ pass_log'[Len(pass_log')].result # Err =>
          LeavesOut(LAMBDA impl : LeftOut(impl) /\ ReachesSkipTests(this_unit, impl))]_vars

\* ---- the shape of every node of the document ------------------------------
\* No node of the tree has both content and children, and no closed node has
\* children or content.
RECURSIVE EitherTextOrChildren(_)
EitherTextOrChildren(node) ==
    /\ ~(IsSome(node.content) /\ Len(node.children) > 0)
    /\ node.closed => (Len(node.children) = 0 /\ ~IsSome(node.content))
    /\ \A k \in 1..Len(node.children) : EitherTextOrChildren(node.children[k])

\* Some node of the tree is closed.
RECURSIVE HasClosedNode(_)
HasClosedNode(node) ==
    node.closed \/ \E k \in 1..Len(node.children) : HasClosedNode(node.children[k])

\* Some node of the tree carries content.
RECURSIVE HasContentNode(_)
HasContentNode(node) ==
    IsSome(node.content) \/ \E k \in 1..Len(node.children) : HasContentNode(node.children[k])

\* C21: in every document tree the translator produces from the skeleton,
\* after any sequence of globals, custom-types and procedural-unit passes, no
\* node has both content and children, and no closed node has children or
\* content.
C21_EitherTextOrChildren ==
    gen_pc # "idle" => EitherTextOrChildren(document)

\* After the globals pass over a variable with an initializer the document
\* holds a closed SimpleValue and a TypeName with content.
C21_Witness ==
    /\ gen_pc = "types" /\ pass_log[1].result = Ok
    /\ Len(units[1].global_vars) = 1
    /\ IsSome(units[1].global_vars[1].variables[1].initializer)
    /\ HasClosedNode(document) /\ HasContentNode(document)

\* ---- the frame of the document -------------------------------------------
\* The root is Project with the four children of the template in their
\* order, and Types has the one child GlobalNamespace.
TemplateShape(doc) ==
    /\ doc.name = "Project"
    /\ [k \in 1..Len(doc.children) |-> doc.children[k].name]
          = <<"FileHeader", "ContentHeader", TYPES, INSTANCES>>
    /\ [k \in 1..Len(doc.children[3].children) |-> doc.children[3].children[k].name]
          = <<GLOBAL_NAMESPACE>>

\* `after` is `before` with children appended, and nothing else changed.
AppendedTo(before, after) ==
    /\ [after EXCEPT !.children = before.children] = before
    /\ Len(before.children) <= Len(after.children)
    /\ SubSeq(after.children, 1, Len(before.children)) = before.children

\* From `before` to `after` children were appended under Instances and
\* under GlobalNamespace, and nothing else was added, removed or reordered.
OnlyAnchorsGrow(before, after) ==
    /\ [after EXCEPT !.children = before.children] = before
    /\ Len(after.children) = 4
    /\ after.children[1] = before.children[1]
    /\ after.children[2] = before.children[2]
    /\ [after.children[3] EXCEPT !.children = before.children[3].children]
          = before.children[3]
    /\ Len(after.children[3].children) = 1
    /\ AppendedTo(before.children[3].children[1], after.children[3].children[1])
    /\ AppendedTo(before.children[4], after.children[4])

\* C22: starting from the template of get_omron_template, after any
\* sequence of passes over any units the root is still Project with exactly
\* the four children FileHeader, ContentHeader, Types, Instances in that
\* order and Types has exactly one child GlobalNamespace; the passes only
\* append children under Instances and under GlobalNamespace and never add,
\* remove or reorder anything else.
C22_TemplateFrameKept ==
    /\ [](document = get_omron_template => TemplateShape(document))
    /\ [][TemplateShape(document) =>
             TemplateShape(document') /\ OnlyAnchorsGrow(document, document')]_vars

\* A finished run of two units from the template in which both anchors got
\* children.
C22_Witness ==
    /\ gen_pc = "done" /\ Len(units) = 2
    /\ TemplateShape(document)
    /\ Len(document.children[4].children) = 2
    /\ Len(document.children[3].children[1].children) >= 2

\* ---- a destination that cannot be created --------------------------------
\* C23: if the destination file cannot be created, write_xml_file returns
\* an error and emits no XML event, and parse_project_into_nodetree returns
\* that error.
C23_CreateFailureIsReturned ==
    (gen_pc = "done" /\ ~created) =>
        /\ write_out.writes = <<>>
        /\ write_out.result = Err
        /\ gen_result = Err

\* A run whose passes filled the document and whose file was not created.
C23_Witness ==
    /\ gen_pc = "done" /\ ~created
    /\ Len(pass_log) >= 3 /\ pass_log[1].result = Ok
    /\ Len(document.children[4].children) >= 1
    /\ gen_result = Err

\* ---- the variables of an emitted procedural unit --------------------------
\* The Variable elements at or below node.
RECURSIVE VariableElements(_)
VariableElements(node) ==
    (IF node.name = "Variable" THEN {node} ELSE {})
    \cup UNION {VariableElements(node.children[k]) : k \in 1..Len(node.children)}

\* The block kinds generate_pous has a container for.
ContainerKinds == {"Input", "Output", "InOut", "External", "Local", "Temp"}

\* The names of the variables of `pou`, in blocks of the given kinds, that
\* are not skipped: they have a source location and a type name.
KeptVariables(pou, kinds) ==
    UNION {{pou.variable_blocks[b].variables[c].name :
                c \in {i \in 1..Len(pou.variable_blocks[b].variables) :
                          /\ pou.variable_blocks[b].variables[i].has_span
                          /\ IsSome(pou.variable_blocks[b].variables[i].type_name)}} :
           b \in {i \in 1..Len(pou.variable_blocks) :
                     pou.variable_blocks[i].kind \in kinds}}

\* Every kept variable (of the given block kinds) of every element of the
\* given element kinds that the step added is a Variable element inside it,
\* and every order number the step claimed is on a Variable element of the
\* element of that name.
VariablesPresent(element_kinds, block_kinds) ==
    /\ \A k \in 1..Len(AddedOfKind(element_kinds)) :
          LET elem == AddedOfKind(element_kinds)[k]
              pou == Unwrap(FindPou(this_unit, elem.attributes["name"]))
          IN KeptVariables(pou, block_kinds)
                \subseteq {v.attributes["name"] : v \in VariableElements(elem)}
    /\ \A j \in (Len(order_log) + 1)..Len(order_log') :
          (order_log'[j].kind \in block_kinds) =>
          \A k \in 1..Len(AddedOfKind(element_kinds)) :
             LET elem == AddedOfKind(element_kinds)[k] IN
             elem.attributes["name"] = order_log'[j].pou =>
                \E v \in VariableElements(elem) :
                   /\ "orderWithinParamSet" \in DOMAIN v.attributes
                   /\ v.attributes["orderWithinParamSet"]
                         = usize_to_string(order_log'[j].order)

\* C24: for every emitted procedural unit of each kind (Program, Function,
\* FunctionBlock), every declared variable that was classified into a
\* container and was not skipped is a Variable element inside that unit's
\* element; in particular every variable that got an orderWithinParamSet
\* and a tracker claim is in the output.
C24_ClassifiedVariablesPresent ==
    [][PousPassOk =>
          VariablesPresent({"Program", "Function", "FunctionBlock"}, ContainerKinds)]_vars

\* The part of C24 the code meets: the input, output and in-out variables
\* of Function and FunctionBlock elements.
ParametersOfFunctionsPresent ==
    [][PousPassOk =>
          VariablesPresent({"Function", "FunctionBlock"}, {"Input", "Output", "InOut"})]_vars

\* ---- one Configuration per call of the globals pass ----------------------
\* A step that is a call of the globals pass.
GlobalsPass ==
    /\ Len(pass_log') = Len(pass_log) + 1
    /\ pass_log'[Len(pass_log')].pass = "globals"

ConfigurationName(u) == UnitName(u) \o "_" \o CONFIGURATION

\* C25: every call of the globals pass on a document that has the Instances
\* anchor appends exactly one new Configuration as the last child of
\* Instances and changes no earlier child; processing k units in sequence
\* leaves k Configurations in unit order, and processing the same unit twice
\* leaves two Configurations for it.
C25_OneConfigurationPerCall ==
    /\ [][(GlobalsPass /\ FindChild(document, INSTANCES) # 0) =>
             LET before == InstancesOf(document).children
                 after == InstancesOf(document').children
             IN /\ Len(after) = Len(before) + 1
                /\ SubSeq(after, 1, Len(before)) = before
                /\ after[Len(after)].name = CONFIGURATION
                /\ after[Len(after)].attributes["name"]
                      = ConfigurationName(unit_idx + 1)]_vars
    /\ []((gen_pc = "done" /\ FindChild(document, INSTANCES) # 0) =>
             LET configurations == InstancesOf(document).children IN
             /\ Len(configurations) = Len(SourceUnits)
             /\ \A k \in 1..Len(SourceUnits) :
                   /\ configurations[k].name = CONFIGURATION
                   /\ configurations[k].attributes["name"]
                         = ConfigurationName(SourceUnits[k]))

\* A finished run over the same unit twice: two equal Configurations.
C25_Witness ==
    /\ gen_pc = "done" /\ Len(units) = 2 /\ units[1] = units[2]
    /\ Len(units[1].global_vars) = 1
    /\ FindChild(document, INSTANCES) # 0
    /\ Len(InstancesOf(document).children) = 2
    /\ InstancesOf(document).children[1] = InstancesOf(document).children[2]

\* ---- units that are not the user's source ---------------------------------
\* The unit's file name ends in ".st", whatever the case of the letters; a
\* unit without a name has no such ending.
NamedLikeSource(unit) ==
    /\ IsSome(unit.file_name)
    /\ Len(Unwrap(unit.file_name)) >= 3
    /\ SubSeq(Unwrap(unit.file_name), Len(Unwrap(unit.file_name)) - 2,
              Len(Unwrap(unit.file_name))) \in {".st", ".sT", ".St", ".ST"}

\* A step of the unit loop that takes up the next unit.
TakesUnit == gen_pc = "loop" /\ unit_idx < Len(units) /\ gen_pc' # "done"

\* C26: parse_project_into_nodetree skips every compilation unit whose file
\* name does not end in ".st", compared without regard to case, a unit
\* without a name counting as not matching: such a unit changes neither the
\* document nor the order tracker and calls no pass, a unit that does match
\* gets its globals pass, and the units after a skipped one are still
\* processed.
C26_OtherUnitsSkipped ==
    /\ [][TakesUnit =>
             IF NamedLikeSource(this_unit)
             THEN GlobalsPass /\ unit_idx' = unit_idx
             ELSE /\ document' = document /\ tracker' = tracker
                  /\ pass_log' = pass_log /\ order_log' = order_log
                  /\ unit_idx' = unit_idx + 1 /\ gen_pc' = "loop"]_vars
    /\ [](gen_pc = "done" =>
             \A u \in 1..Len(units) :
                NamedLikeSource(units[u]) <=>
                   \E k \in 1..Len(pass_log) : pass_log[k].unit = u - 1)

\* A finished run in which a unit without a name was skipped and the source
\* unit after it left its Configuration and its claims.
C26_Witness ==
    /\ gen_pc = "done" /\ Len(units) = 2
    /\ units[1].file_name = None
    /\ Len(pass_log) = 3 /\ pass_log[1].unit = 1 /\ pass_log[3].result = Ok
    /\ tracker # {}

\* ---- who changes the order tracker ----------------------------------------
\* A step that is a call of the pass called `pass`.
PassCalled(pass) ==
    /\ Len(pass_log') = Len(pass_log) + 1
    /\ pass_log'[Len(pass_log')].pass = pass

\* The block kinds whose variables get an order number.
OrderKinds == {"Input", "Output", "InOut", "Temp", "Global"}

\* The places (block, variable) of the variables of `pou`, in blocks of the
\* given kinds, that are not skipped.
KeptPlaces(pou, kinds) ==
    {place \in UNION {{<<b, c>> : c \in 1..Len(pou.variable_blocks[b].variables)} :
                         b \in 1..Len(pou.variable_blocks)} :
        /\ pou.variable_blocks[place[1]].kind \in kinds
        /\ pou.variable_blocks[place[1]].variables[place[2]].has_span
        /\ IsSome(pou.variable_blocks[place[1]].variables[place[2]].type_name)}

\* The number of variables, over the elements elems[k..], that are declared
\* in an order-taking block and are not skipped.
RECURSIVE KeptOrderCount(_, _)
KeptOrderCount(elems, k) ==
    IF k > Len(elems) THEN 0
    ELSE Cardinality(KeptPlaces(
             Unwrap(FindPou(this_unit, elems[k].attributes["name"])), OrderKinds))
         + KeptOrderCount(elems, k + 1)

\* C27: only the procedural-units pass changes the order tracker: the
\* globals pass and the custom-types pass leave it as they found it, and a
\* variable that is skipped for want of a type name or of a source location
\* adds no entry, so that a procedural-units pass adds one entry for every
\* variable it keeps in an order-taking block and no other.
C27_OnlyPousPassClaims ==
    /\ [][(PassCalled("globals") \/ PassCalled("types")) =>
             (tracker' = tracker /\ order_log' = order_log)]_vars
    /\ [][PousPassOk =>
             /\ tracker \subseteq tracker'
             /\ Cardinality(tracker' \ tracker) = KeptOrderCount(AddedToNamespace, 1)]_vars

\* A second unit: its globals and custom-types passes ran on a tracker that
\* held claims, and its procedural-units pass skipped a variable without a
\* type name and claimed an order for the one after it.
C27_Witness ==
    /\ gen_pc = "done" /\ Len(units) = 2
    /\ Len(pass_log) = 6 /\ pass_log[6].result = Ok
    /\ Len(units[1].pous) = 1 /\ Len(units[2].pous) = 1
    /\ units[1].pous[1].variable_blocks[1].kind = "Input"
    /\ ~IsSome(units[2].pous[1].variable_blocks[1].variables[1].type_name)
    /\ Cardinality(tracker) = MaxVars + 1

\* ---- a sub-pass that does not find its anchor ------------------------------
\* A step that is a call of a sub-pass which returned the not-found error.
PassFailed ==
    /\ Len(pass_log') = Len(pass_log) + 1
    /\ pass_log'[Len(pass_log')].result = Err

\* C28: when a sub-pass returns the anchor-not-found error (Instances
\* missing for the globals pass; Types or GlobalNamespace missing for the
\* custom-types and procedural-units passes), the document tree and the
\* order tracker are exactly as they were before the sub-pass was called.
C28_FailedPassChangesNothing ==
    [][PassFailed =>
          /\ pass_log'[Len(pass_log')].pass = "globals"
                => FindChild(document, INSTANCES) = 0
          /\ pass_log'[Len(pass_log')].pass \in {"types", "pous"}
                => (\/ FindChild(document, TYPES) = 0
                    \/ FindChild(document.children[FindChild(document, TYPES)],
                                 GLOBAL_NAMESPACE) = 0)
          /\ document' = document
          /\ tracker' = tracker
          /\ order_log' = order_log]_vars

\* The globals pass of a second unit failed on a document without Instances
\* while the tracker held the claims of the first unit.
C28_Witness ==
    /\ gen_pc = "types" /\ unit_idx = 1
    /\ Len(pass_log) = 4 /\ pass_log[4].result = Err
    /\ FindChild(document, INSTANCES) = 0
    /\ Cardinality(tracker) >= 2
    /\ Len(NamespaceOf(document).children) = 1

\* ---- the two renderings of one tree ----------------------------------------
\* The elements serialize's text shows, in the order of their lines: the
\* indent, the name, the attributes and the text payload of every line that
\* is not a closing tag.
SerializedElements(out) ==
    LET shown == SelectSeq(out, LAMBDA l : l.form # "close")
    IN [k \in 1..Len(shown) |->
           [indent |-> shown[k].indent, name |-> shown[k].name,
            attrs |-> shown[k].attrs, text |-> shown[k].text]]

\* The elements the writer's events show, from event k on at nesting depth
\* `depth`: every start tag with its attributes, at the indent of its
\* depth, with the text of the CData event that follows it, if one does.
RECURSIVE WrittenElements(_, _, _)
WrittenElements(writes, k, depth) ==
    IF k > Len(writes) THEN <<>>
    ELSE IF writes[k].kind = "StartElement"
    THEN <<[indent |-> indent(depth), name |-> writes[k].name, attrs |-> writes[k].attrs,
            text |-> IF k < Len(writes) /\ writes[k + 1].kind = "CData"
                     THEN writes[k + 1].text ELSE None]>>
         \o WrittenElements(writes, k + 1, depth + 1)
    ELSE IF writes[k].kind = "EndElement"
    THEN WrittenElements(writes, k + 1, depth - 1)
    ELSE WrittenElements(writes, k + 1, depth)

\* Both renderings of the tree are there: serialize returned and
\* write_xml_file wrote every event.
BothRendered ==
    /\ node_pc = "written" /\ created
    /\ \A k \in 1..Len(write_out.writes) : ~write_out.writes[k].failed

\* C30: for every node tree in which no node has both content and children
\* and no closed node has children or content, Node::serialize and
\* write_xml_file render the same document structure: the same elements in
\* the same pre-order, the same nesting, the same attribute set on every
\* element and the same text payload on every leaf.
C30_SameStructureRendered ==
    (BothRendered /\ EitherTextOrChildren(tree)) =>
        SerializedElements(ser_out) = WrittenElements(write_out.writes, 1, 0)

\* No node of the tree has both content and attributes.
RECURSIVE TextWithoutAttributes(_)
TextWithoutAttributes(node) ==
    /\ IsSome(node.content) => node.attributes = EmptyAttributes
    /\ \A k \in 1..Len(node.children) : TextWithoutAttributes(node.children[k])

\* The part of C30 the code meets: the trees in which, besides, no node
\* with content has attributes.
SameStructureWithoutTextAttributes ==
    (BothRendered /\ EitherTextOrChildren(tree) /\ TextWithoutAttributes(tree)) =>
        SerializedElements(ser_out) = WrittenElements(write_out.writes, 1, 0)
=============================================================================
